---- MODULE Spec2Model ----
(***************************************************************************)
(* mini-git (obradovicsl/mini-git): the loose object store, the tree       *)
(* builder, the commit builder, the refs discovery, the pack unpacker and  *)
(* cat-file of the final main.go (src/unnamed/part_000, lines 3127-4230),  *)
(* as a state machine.                                                     *)
(*                                                                         *)
(* Bytes are integers and byte strings are sequences of integers.  SHA-1   *)
(* is a DigestLen-byte weighted-sum digest and zlib is a stored stream     *)
(* (header, length, payload, checksum); both are computed, never assumed.  *)
(***************************************************************************)
EXTENDS Integers, Sequences, FiniteSets, TLC

(***************************************************************************)
(* Bounds of the model.                                                    *)
(***************************************************************************)
\* Width of a digest in bytes (sha1.Size is 20 in the program).
DigestLen == 4
\* Largest number of bytes one write system call of os.WriteFile transfers.
ChunkLen == 24
\* Number of commands one behaviour runs.
MaxCmds == 2

(***************************************************************************)
(* Byte strings.                                                           *)
(***************************************************************************)
NUL == 0
SP == 32
Slash == 47
NL == 10

s_blob == <<98, 108, 111, 98>>
s_tree == <<116, 114, 101, 101>>
s_commit == <<99, 111, 109, 109, 105, 116>>
s_tag == <<116, 97, 103>>
s_ofs_delta == <<111, 102, 115, 95, 100, 101, 108, 116, 97>>
s_ref_delta == <<114, 101, 102, 95, 100, 101, 108, 116, 97>>
s_root == <<114, 111, 111, 116>>
s_40000 == <<52, 48, 48, 48, 48>>
s_w == <<45, 119>>
s_t == <<45, 116>>
s_s == <<45, 115>>
s_p == <<45, 112>>
s_m == <<45, 109>>

RECURSIVE Pow2(_)
Pow2(k) == IF k = 0 THEN 1 ELSE 2 * Pow2(k - 1)

\* Bit k of byte b (b & (1 << k) != 0).
Bit(b, k) == (b \div Pow2(k)) % 2

Min(a, b) == IF a < b THEN a ELSE b

\* strconv.Itoa for n >= 0.
RECURSIVE Itoa(_)
Itoa(n) == IF n < 10 THEN <<48 + n>> ELSE Append(Itoa(n \div 10), 48 + (n % 10))

IsPrefix(a, b) == Len(a) <= Len(b) /\ SubSeq(b, 1, Len(a)) = a

\* bytes.IndexByte: the first position of c in s (1-based), 0 when absent.
IndexByte(s, c) ==
    IF \E i \in 1..Len(s) : s[i] = c
        THEN CHOOSE i \in 1..Len(s) : s[i] = c /\ \A j \in 1..(i - 1) : s[j] # c
    ELSE 0

\* strings.Split(s, sep) for a one-byte separator: always at least one part.
RECURSIVE Split(_, _)
Split(s, sep) ==
    LET i == IndexByte(s, sep)
    IN  IF i = 0 THEN <<s>>
        ELSE <<SubSeq(s, 1, i - 1)>> \o Split(SubSeq(s, i + 1, Len(s)), sep)

\* strings.Join(parts, sep).
RECURSIVE Join(_, _)
Join(parts, sep) ==
    IF parts = <<>> THEN <<>>
    ELSE IF Len(parts) = 1 THEN parts[1]
    ELSE parts[1] \o <<sep>> \o Join(Tail(parts), sep)

\* Go's string order: byte-wise, a proper prefix first.
RECURSIVE LexLess(_, _)
LexLess(a, b) ==
    IF b = <<>> THEN FALSE
    ELSE IF a = <<>> THEN TRUE
    ELSE IF a[1] # b[1] THEN a[1] < b[1]
    ELSE LexLess(Tail(a), Tail(b))

\* sort.Strings over the keys of a map.
RECURSIVE sortStrings(_)
sortStrings(S) ==
    IF S = {} THEN <<>>
    ELSE LET m == CHOOSE x \in S : \A y \in S \ {x} : LexLess(x, y)
         IN  <<m>> \o sortStrings(S \ {m})

RECURSIVE Octal(_)
Octal(n) == IF n < 8 THEN <<48 + n>> ELSE Append(Octal(n \div 8), 48 + (n % 8))

RECURSIVE PadZero(_, _)
PadZero(digits, width) ==
    IF Len(digits) >= width THEN digits ELSE PadZero(<<48>> \o digits, width)

\* fmt.Sprintf("%06o", mode).
Sprintf06o(mode) == PadZero(Octal(mode), 6)

(***************************************************************************)
(* Object codec.                                                           *)
(***************************************************************************)
\* generateObjectByte: "<type> <size>\0<content>".
generateObjectByte(objectType, objectContent) ==
    objectType \o <<SP>> \o Itoa(Len(objectContent)) \o <<NUL>> \o objectContent

\* The weight of position i in byte k of the digest.
Weight(k, i) == ((i * (2 * k + 255) + i * i * k) % 65519) + 1

\* The weighted sum of bytes[lo..hi] for byte k of the digest (by halves).
RECURSIVE WSum(_, _, _, _)
WSum(bytes, lo, hi, k) ==
    IF lo > hi THEN 0
    ELSE IF lo = hi THEN ((bytes[lo] + 1) * Weight(k, lo)) % 65521
    ELSE LET mid == (lo + hi) \div 2
         IN  (WSum(bytes, lo, mid, k) + WSum(bytes, mid + 1, hi, k)) % 65521

\* hashObject: the digest of the framed object (sha1 in the program), here
\* DigestLen position-weighted sums of its bytes.
hashObject(objectBytes) ==
    [k \in 1..DigestLen |-> (WSum(objectBytes, 1, Len(objectBytes), k) + k) % 256]

HexDigit(n) == IF n < 10 THEN 48 + n ELSE 87 + n

\* fmt.Sprintf("%x", hash) and hex.EncodeToString.
RECURSIVE hexString(_)
hexString(hash) ==
    IF hash = <<>> THEN <<>>
    ELSE <<HexDigit(Head(hash) \div 16), HexDigit(Head(hash) % 16)>> \o hexString(Tail(hash))

\* The path of an object below .git/objects: <hash[:2]>/<hash[2:]>.
objectPath(hashString) ==
    <<SubSeq(hashString, 1, 2), SubSeq(hashString, 3, Len(hashString))>>

RECURSIVE SumBytes(_, _, _)
SumBytes(bytes, lo, hi) ==
    IF lo > hi THEN 0
    ELSE IF lo = hi THEN bytes[lo]
    ELSE LET mid == (lo + hi) \div 2
         IN  SumBytes(bytes, lo, mid) + SumBytes(bytes, mid + 1, hi)

\* The checksum that ends a zlib stream.
Adler(bytes) == (1 + SumBytes(bytes, 1, Len(bytes))) % 65521

\* The two header bytes of a zlib stream (CMF, FLG).
ZHeader == <<120, 156>>

\* compressObject: the zlib stream of the object.
compressObject(object) ==
    ZHeader \o <<Len(object)>> \o object \o <<Adler(object)>>

\* zlib.NewReader + io.ReadAll on `data`: the bytes of the stream and how
\* many bytes of `data` it took; err when the header is wrong, the stream
\* is cut short or the checksum does not match.
zlibReadAll(data) ==
    IF Len(data) < 2 \/ SubSeq(data, 1, 2) # ZHeader
        THEN [err |-> TRUE, data |-> <<>>, used |-> 0]
    ELSE IF Len(data) < 3 \/ Len(data) < data[3] + 4
        THEN [err |-> TRUE, data |-> <<>>, used |-> 0]
    ELSE LET body == SubSeq(data, 4, 3 + data[3])
         IN IF data[4 + data[3]] # Adler(body)
                THEN [err |-> TRUE, data |-> <<>>, used |-> 0]
            ELSE [err |-> FALSE, data |-> body, used |-> data[3] + 4]

\* The object file at `path` holds a whole zlib stream of an object whose
\* digest names the path.
HashIdentityAt(fs, path) ==
    LET z == zlibReadAll(fs[path])
    IN  /\ ~z.err
        /\ z.used = Len(fs[path])
        /\ objectPath(hexString(hashObject(z.data))) = path

(***************************************************************************)
(* State.                                                                  *)
(***************************************************************************)
VARIABLES
    files,      \* .git/objects: path <<dir, file>> -> bytes of the file
    dirs,       \* the fan-out directories of .git/objects
    index,      \* .git/index: the sequence of IndexEntry
    pc,         \* the command the process runs, "idle" between commands
    wr,         \* the writeObject call in flight
    out,        \* what the command printed on standard output
    exit,       \* exit status of the last command: 0, 1, or 2 (panic)
    ncmd,       \* commands started so far
    killed,     \* whether a command was ever killed part-way
    put,        \* framed object -> digest returned, per completed writeObject
    tree,       \* write-tree: the TreeNode structure, node path -> TreeNode
    stack,      \* write-tree: the calls of dfsTreeCreation in progress
    log,        \* write-tree: the directories whose tree was written, in order
    pack,       \* clone: which pack of Packs the remote sent, 0 before any clone
    objects,    \* clone: the GitObjects parsePackFile returned
    objIdx,     \* clone: the object writePackObjects is at
    stage,      \* clone: the last stage that succeeded, "checkout" the last of all
    rd,         \* cat-file in a second process: what it last observed
    advert,     \* clone: which advertisement of Adverts the remote sent, 0 before
    request,    \* clone: the upload-pack request sent, <<>> when none was
    args,       \* commit-tree: os.Args[2:] of the last command, <<>> for another
    work,       \* clone: the working tree, file path -> content written
    call        \* a function called on its own: its name, input and result

cloneVars == <<pack, objects, objIdx, stage, advert, request>>

vars == <<files, dirs, index, pc, wr, out, exit, ncmd, killed, put, tree, stack, log,
          pack, objects, objIdx, stage, rd, advert, request, args, work, call>>

\* No function was called on its own.
NoCall == [fn |-> "none", input |-> <<>>, result |-> <<>>]

NoWrite == [st |-> "none", object |-> <<>>, hash |-> <<>>, data |-> <<>>, n |-> 0]

(***************************************************************************)
(* writeObject (lines 3521-3553), one system call per step.                *)
(***************************************************************************)
\* The caller hands the framed object to writeObject.
CallWriteObject(object) ==
    [st |-> "begin", object |-> object, hash |-> <<>>, data |-> <<>>, n |-> 0]

\* A writeObject that names the file by the digest of the compressed bytes.
writeObjectStatHashOfCompressed(w, fs) ==
    LET hash == hashObject(compressObject(w.object))
        fullPath == objectPath(hexString(hash))
    IN  IF fullPath \in DOMAIN fs
            THEN [w EXCEPT !.st = "done", !.hash = hash]
        ELSE [w EXCEPT !.st = "create", !.hash = hash,
                       !.data = compressObject(w.object)]

\* A writeObject that returns no digest when the file is already there.
writeObjectStatNilOnExisting(w, fs) ==
    LET hash == hashObject(w.object)
        fullPath == objectPath(hexString(hash))
    IN  IF fullPath \in DOMAIN fs
            THEN [w EXCEPT !.st = "done", !.hash = <<>>]
        ELSE [w EXCEPT !.st = "create", !.hash = hash,
                       !.data = compressObject(w.object)]

\* A writeObject without the os.Stat: it writes the file whether it is
\* there or not.
writeObjectStatAlwaysWrite(w, fs) ==
    [w EXCEPT !.st = "create", !.hash = hashObject(w.object),
              !.data = compressObject(w.object)]

\* hashObject, compressObject, os.MkdirAll, os.Stat: return the digest when
\* the file exists, go on to os.WriteFile when it does not.
writeObjectStat(w, fs) ==
    LET hash == hashObject(w.object)
        fullPath == objectPath(hexString(hash))
    IN  IF fullPath \in DOMAIN fs
            THEN [w EXCEPT !.st = "done", !.hash = hash]
        ELSE [w EXCEPT !.st = "create", !.hash = hash,
                       !.data = compressObject(w.object)]

WriteObjectBegin ==
    /\ wr.st = "begin"
    /\ dirs' = dirs \cup {objectPath(hexString(hashObject(wr.object)))[1]}
    /\ wr' = writeObjectStat(wr, files)
    /\ UNCHANGED <<files, index, pc, out, exit, ncmd, killed, put, tree, stack, log, cloneVars, rd,
                   args, work, call>>

\* os.WriteFile opens the file with O_CREATE|O_TRUNC: it exists and is empty.
WriteObjectCreate ==
    /\ wr.st = "create"
    /\ files' = (objectPath(hexString(wr.hash)) :> <<>>) @@ files
    /\ wr' = [wr EXCEPT !.st = "write", !.n = 0]
    /\ UNCHANGED <<dirs, index, pc, out, exit, ncmd, killed, put, tree, stack, log, cloneVars, rd,
                   args, work, call>>

\* os.WriteFile writes the compressed bytes, at most ChunkLen per call, and
\* returns when all are written.
WriteObjectWrite ==
    /\ wr.st = "write"
    /\ LET path == objectPath(hexString(wr.hash))
           m == Min(Len(wr.data), wr.n + ChunkLen)
       IN  /\ files' = [files EXCEPT ![path] = SubSeq(wr.data, 1, m)]
           /\ wr' = [wr EXCEPT !.n = m,
                               !.st = IF m = Len(wr.data) THEN "done" ELSE "write"]
    /\ UNCHANGED <<dirs, index, pc, out, exit, ncmd, killed, put, tree, stack, log, cloneVars, rd,
                   args, work, call>>

\* The digest a completed writeObject returned for the object, remembered.
Returned(w) == (w.object :> w.hash) @@ put

(***************************************************************************)
(* hash-object (lines 3192-3222).                                          *)
(***************************************************************************)
\* The digest hash-object prints for a file of the given content.
BlobDigest(content) == hashObject(generateObjectByte(s_blob, content))

Content1 == <<104, 101, 108, 108, 111, 10>>
Content2 == <<120>>

\* File contents given to hash-object.
Contents == {Content1, Content2}

HashObjectCmd ==
    /\ pc = "idle" /\ ncmd < MaxCmds
    /\ \E objectContent \in Contents, flag \in {s_w, <<>>} :
          LET objectBytes == generateObjectByte(s_blob, objectContent)
          IN  IF flag = s_w
                  THEN /\ pc' = "hash-object"
                       /\ wr' = CallWriteObject(objectBytes)
                       /\ out' = <<>>
                       /\ exit' = 0
                  ELSE /\ pc' = "idle"
                       /\ wr' = NoWrite
                       /\ out' = hexString(hashObject(objectBytes)) \o <<NL>>
                       /\ exit' = 0
    /\ ncmd' = ncmd + 1
    /\ args' = <<>>
    /\ UNCHANGED <<files, dirs, index, killed, put, tree, stack, log, cloneVars, rd,
                   work, call>>

HashObjectReturn ==
    /\ pc = "hash-object" /\ wr.st = "done"
    /\ out' = hexString(hashObject(wr.object)) \o <<NL>>
    /\ put' = Returned(wr)
    /\ wr' = NoWrite
    /\ pc' = "idle"
    /\ UNCHANGED <<files, dirs, index, exit, ncmd, killed, tree, stack, log, cloneVars, rd,
                   args, work, call>>

(***************************************************************************)
(* Tree builder: makeDirTree, insertInTree (lines 3618-3667).              *)
(***************************************************************************)
DirMode == 40000

\* A TreeNode is named by the path of names from the root, <<>> for the root.
RootNode ==
    [Name |-> s_root, IsDir |-> TRUE, Hash |-> <<>>, Mode |-> DirMode, Children |-> {}]

RECURSIVE insertInTree(_, _, _, _)
insertInTree(nodes, root, path, entry) ==
    LET pathParts == Split(path, Slash)
        nextPath == Join(Tail(pathParts), Slash)
        name == pathParts[1]
        child == Append(root, name)
        newFile == [Name |-> name, IsDir |-> FALSE, Hash |-> entry.Hash,
                    Mode |-> entry.Mode, Children |-> {}]
        newDir == [Name |-> name, IsDir |-> TRUE, Hash |-> <<>>,
                   Mode |-> DirMode, Children |-> {}]
        link(n) == (child :> n) @@ [nodes EXCEPT ![root].Children = @ \cup {name}]
    IN  IF name \in nodes[root].Children
            THEN insertInTree(nodes, child, nextPath, entry)
        ELSE IF Len(pathParts) = 1 THEN link(newFile)
        ELSE insertInTree(link(newDir), child, nextPath, entry)

RECURSIVE insertAll(_, _, _)
insertAll(nodes, indexEntries, i) ==
    IF i > Len(indexEntries) THEN nodes
    ELSE insertAll(insertInTree(nodes, <<>>, indexEntries[i].Path, indexEntries[i]),
                   indexEntries, i + 1)

makeDirTree(indexEntries) == insertAll((<<>> :> RootNode), indexEntries, 1)

(***************************************************************************)
(* createTreeContent, createTree (lines 3709-3749).                        *)
(***************************************************************************)
\* One entry of a tree payload: "<mode> <name>\0<digest>".
treeEntry(child) ==
    (IF child.IsDir THEN s_40000 ELSE Sprintf06o(child.Mode))
        \o <<SP>> \o child.Name \o <<NUL>> \o child.Hash

RECURSIVE treeEntries(_, _, _)
treeEntries(nodes, id, keys) ==
    IF keys = <<>> THEN <<>>
    ELSE treeEntry(nodes[Append(id, Head(keys))]) \o treeEntries(nodes, id, Tail(keys))

\* The children in sorted name order, one entry each.
createTreeContent(nodes, id) ==
    treeEntries(nodes, id, sortStrings(nodes[id].Children))

\* The framed tree object createTree hands to writeObject.
createTree(nodes, id) == generateObjectByte(s_tree, createTreeContent(nodes, id))

(***************************************************************************)
(* write-tree (lines 3244-3264) and dfsTreeCreation (lines 3682-3706).     *)
(***************************************************************************)
\* A dfsTreeCreation that recurses into no child.
DirChildrenNone(nodes, id) == {}

\* A dfsTreeCreation that recurses into one directory child only.
DirChildrenFirstOnly(nodes, id) ==
    LET ds == {c \in nodes[id].Children : nodes[Append(id, c)].IsDir}
    IN  IF ds = {} THEN {} ELSE {CHOOSE c \in ds : \A d \in ds \ {c} : LexLess(c, d)}

\* The children dfsTreeCreation recurses into (the others are skipped).
DirChildren(nodes, id) ==
    {c \in nodes[id].Children : nodes[Append(id, c)].IsDir}

\* dfsTreeCreation as a function: the nodes with the Hash of every directory
\* at and below id set, the children taken in one of the orders of the map.
RECURSIVE dfsTreeCreation(_, _)
RECURSIVE dfsChildren(_, _, _)
dfsChildren(nodes, id, todo) ==
    IF todo = {} THEN nodes
    ELSE LET c == CHOOSE x \in todo : TRUE
         IN  dfsChildren(dfsTreeCreation(nodes, Append(id, c)), id, todo \ {c})

dfsTreeCreation(nodes, id) ==
    IF nodes[id].Children = {} THEN nodes
    ELSE LET done == dfsChildren(nodes, id, DirChildren(nodes, id))
         IN  [done EXCEPT ![id].Hash = hashObject(createTree(done, id))]

\* The digest write-tree prints for an index.
writeTreeDigest(indexEntries) ==
    dfsTreeCreation(makeDirTree(indexEntries), <<>>)[<<>>].Hash

Top == stack[Len(stack)]
Pop == SubSeq(stack, 1, Len(stack) - 1)

\* readGitIndex, makeDirTree, and the call dfsTreeCreation(directoryRoot),
\* which returns at once for a node without children.
WriteTreeCmd ==
    /\ pc = "idle" /\ ncmd < MaxCmds
    /\ ncmd' = ncmd + 1
    /\ LET directoryRoot == makeDirTree(index)
       IN  /\ tree' = directoryRoot
           /\ log' = <<>>
           /\ exit' = 0
           /\ IF directoryRoot[<<>>].Children = {}
                  THEN /\ stack' = <<>>
                       /\ pc' = "idle"
                       /\ out' = hexString(directoryRoot[<<>>].Hash) \o <<NL>>
                  ELSE /\ stack' = <<[node |-> <<>>, todo |-> DirChildren(directoryRoot, <<>>)]>>
                       /\ pc' = "write-tree"
                       /\ out' = <<>>
    /\ args' = <<>>
    /\ UNCHANGED <<files, dirs, index, wr, killed, put, cloneVars, rd, work, call>>

\* The range over root.Children takes the next directory child, in any
\* order (a Go map), and calls dfsTreeCreation on it.
DfsDescend ==
    /\ pc = "write-tree" /\ wr.st = "none" /\ stack # <<>>
    /\ \E c \in Top.todo :
          LET child == Append(Top.node, c)
              rest == [Top EXCEPT !.todo = @ \ {c}]
          IN  stack' = IF tree[child].Children = {}
                           THEN Append(Pop, rest)
                       ELSE Append(Append(Pop, rest),
                                   [node |-> child, todo |-> DirChildren(tree, child)])
    /\ UNCHANGED <<files, dirs, index, pc, wr, out, exit, ncmd, killed, put, tree, log, cloneVars, rd,
                   args, work, call>>

\* Every directory child is done: createTree(root) calls writeObject.
DfsCreateTree ==
    /\ pc = "write-tree" /\ wr.st = "none" /\ stack # <<>>
    /\ Top.todo = {}
    /\ wr' = CallWriteObject(createTree(tree, Top.node))
    /\ UNCHANGED <<files, dirs, index, pc, out, exit, ncmd, killed, put, tree, stack, log, cloneVars, rd,
                   args, work, call>>

\* writeObject returned: root.Hash = hash, return to the caller; the
\* outermost call returns to main, which prints the root's digest.
DfsReturn ==
    /\ pc = "write-tree" /\ wr.st = "done"
    /\ tree' = [tree EXCEPT ![Top.node].Hash = wr.hash]
    /\ log' = Append(log, Top.node)
    /\ put' = Returned(wr)
    /\ wr' = NoWrite
    /\ stack' = Pop
    /\ IF Len(stack) = 1
           THEN /\ pc' = "idle"
                /\ out' = hexString(tree'[<<>>].Hash) \o <<NL>>
           ELSE UNCHANGED <<pc, out>>
    /\ UNCHANGED <<files, dirs, index, exit, ncmd, killed, cloneVars, rd, args, work, call>>

(***************************************************************************)
(* readObjectFromHash (lines 3407-3438).                                   *)
(***************************************************************************)
\* Capacity of the buffer io.ReadAll returns for a short stream: a slice
\* of it can be re-sliced up to this capacity, reading zero bytes.
ReadAllCap == 512

\* bytes.Cut(s, {0}): what precedes the first NUL, and what follows it.
CutNul(s) ==
    LET i == IndexByte(s, NUL)
    IN  IF i = 0 THEN [before |-> s, after |-> <<>>, found |-> FALSE]
        ELSE [before |-> SubSeq(s, 1, i - 1), after |-> SubSeq(s, i + 1, Len(s)),
              found |-> TRUE]

\* st is "ok", "err" (an error is returned) or "panic" (the process dies).
\* cap is the capacity of the body slice, which shares io.ReadAll's buffer.
readObjectFromHash(fs, objectHash) ==
    LET bad(st) == [st |-> st, type |-> <<>>, size |-> <<>>, body |-> <<>>, cap |-> 0]
    IN  IF Len(objectHash) < 2 THEN bad("panic")
        ELSE IF objectPath(objectHash) \notin DOMAIN fs THEN bad("err")
        ELSE LET z == zlibReadAll(fs[objectPath(objectHash)])
                 cut == CutNul(z.data)
                 parts == Split(cut.before, SP)
             IN  IF z.err THEN bad("err")
                 ELSE IF Len(parts) < 2 THEN bad("panic")
                 ELSE [st |-> "ok", type |-> parts[1], size |-> parts[2],
                       body |-> cut.after,
                       cap |-> IF cut.found
                                   THEN ReadAllCap - (Len(cut.before) + 1)
                               ELSE 0]

(***************************************************************************)
(* commit-tree (lines 3265-3284) and createCommitContent (3752-3772).      *)
(***************************************************************************)
s_tree_sp == <<116, 114, 101, 101, 32>>
s_parent_sp == <<112, 97, 114, 101, 110, 116, 32>>
s_author_sp == <<97, 117, 116, 104, 111, 114, 32>>
s_committer_sp == <<99, 111, 109, 109, 105, 116, 116, 101, 114, 32>>
authorName == <<111, 98, 114, 97, 100, 111, 118, 105, 99, 115, 108>>
authorEmail ==
    <<115, 108, 111, 98, 111, 100, 97, 110, 111, 98, 114, 97, 100, 111, 118, 105, 99,
      51, 64, 103, 109, 97, 105, 108, 46, 99, 111, 109>>

\* time.Now(): the seconds since the epoch and the zone offset, "+0000".
Timestamps == {1700000000}
timezoneOffset == <<43, 48, 48, 48, 48>>

createCommitContent(treeHash, commitMessage, parentHash, timestamp) ==
    LET who == authorName \o <<SP, 60>> \o authorEmail \o <<62, SP>>
                   \o Itoa(timestamp) \o <<SP>> \o timezoneOffset \o <<NL>>
    IN  s_tree_sp \o treeHash \o <<NL>>
            \o (IF parentHash # <<>> THEN s_parent_sp \o parentHash \o <<NL>> ELSE <<>>)
            \o s_author_sp \o who
            \o s_committer_sp \o who
            \o <<NL>>
            \o commitMessage
            \o <<NL>>

\* parseCommitTreeCmdArgs: three arguments are <tree> -m <message>, five are
\* <tree> -p <parent> -m <message>; the flags themselves are never looked at.
parseCommitTreeCmdArgs(a) ==
    IF Len(a) # 3 /\ Len(a) # 5
        THEN [err |-> TRUE, treeHash |-> <<>>, commitMessage |-> <<>>, parentHash |-> <<>>]
    ELSE IF Len(a) = 3
        THEN [err |-> FALSE, treeHash |-> a[1], commitMessage |-> a[3], parentHash |-> <<>>]
    ELSE [err |-> FALSE, treeHash |-> a[1], commitMessage |-> a[5], parentHash |-> a[3]]

\* The arguments commit-tree is run with: <tree> {-p <parent>} -m <message>,
\* for a root commit, a linear commit and a merge of two parents.
CommitArgs ==
    LET t == hexString(BlobDigest(Content1))
        p == hexString(BlobDigest(Content2))
        q == hexString(BlobDigest(<<121>>))
        m == <<104, 105>>
    IN  { <<t, s_m, m>>,
          <<t, s_p, p, s_m, m>>,
          <<t, s_p, p, s_p, q, s_m, m>> }

CommitTreeCmd ==
    /\ pc = "idle" /\ ncmd < MaxCmds
    /\ ncmd' = ncmd + 1
    /\ \E a \in CommitArgs, timestamp \in Timestamps :
          LET r == parseCommitTreeCmdArgs(a)
              commitContent ==
                  createCommitContent(r.treeHash, r.commitMessage, r.parentHash, timestamp)
          IN  /\ args' = a
              /\ IF r.err
                     THEN /\ wr' = NoWrite
                          /\ pc' = "idle"
                          /\ exit' = 1
                     ELSE /\ wr' = CallWriteObject(generateObjectByte(s_commit, commitContent))
                          /\ pc' = "commit-tree"
                          /\ exit' = 0
    /\ out' = <<>>
    /\ UNCHANGED <<files, dirs, index, killed, put, tree, stack, log, cloneVars, rd,
                   work, call>>

CommitTreeReturn ==
    /\ pc = "commit-tree" /\ wr.st = "done"
    /\ out' = hexString(wr.hash) \o <<NL>>
    /\ put' = Returned(wr)
    /\ wr' = NoWrite
    /\ pc' = "idle"
    /\ UNCHANGED <<files, dirs, index, exit, ncmd, killed, tree, stack, log, cloneVars, rd,
                   args, work, call>>

(***************************************************************************)
(* Go slices: a slice of an io.ReadAll buffer has the buffer's capacity;   *)
(* s[lo:hi] panics only beyond the capacity, and what lies between the     *)
(* length and the capacity reads as zero bytes.                            *)
(***************************************************************************)
\* s[lo:hi] (0-based, hi excluded) of a slice of capacity cap.
SliceOK(cap, lo, hi) == 0 <= lo /\ lo <= hi /\ hi <= cap
Slice(s, lo, hi) == [j \in 1..(hi - lo) |-> IF lo + j <= Len(s) THEN s[lo + j] ELSE 0]

\* s[lo:] : the rest of the slice, up to its length.
From(s, lo) == SubSeq(s, lo + 1, Len(s))

\* binary.BigEndian.Uint32.
Uint32(b) == ((b[1] * 256 + b[2]) * 256 + b[3]) * 256 + b[4]

\* bytes.Index(s, sep): the first position (0-based) of sep in s, -1 if none.
bytesIndex(s, sep) ==
    LET hits == {i \in 0..(Len(s) - Len(sep)) : SubSeq(s, i + 1, i + Len(sep)) = sep}
    IN  IF hits = {} THEN -1 ELSE CHOOSE i \in hits : \A j \in hits : i <= j

RECURSIVE BitOr(_, _)
BitOr(a, b) ==
    IF a = 0 THEN b
    ELSE IF b = 0 THEN a
    ELSE (IF a % 2 = 1 \/ b % 2 = 1 THEN 1 ELSE 0) + 2 * BitOr(a \div 2, b \div 2)

(***************************************************************************)
(* types.go: ObjectType.                                                   *)
(***************************************************************************)
OBJ_COMMIT == 1
OBJ_TREE == 2
OBJ_BLOB == 3
OBJ_TAG == 4
OBJ_OFS_DELTA == 6
OBJ_REF_DELTA == 7

\* ObjectType.String().
TypeString(objType) ==
    CASE objType = OBJ_TREE -> s_tree
      [] objType = OBJ_COMMIT -> s_commit
      [] objType = OBJ_BLOB -> s_blob
      [] objType = OBJ_TAG -> s_tag
      [] objType = OBJ_OFS_DELTA -> s_ofs_delta
      [] objType = OBJ_REF_DELTA -> s_ref_delta
      [] OTHER -> <<>>

\* ObjectTypeFromString: the type, 0 with an error for an unknown name.
ObjectTypeFromString(str) ==
    CASE str = s_tree -> [type |-> OBJ_TREE, err |-> FALSE]
      [] str = s_commit -> [type |-> OBJ_COMMIT, err |-> FALSE]
      [] str = s_blob -> [type |-> OBJ_BLOB, err |-> FALSE]
      [] str = s_tag -> [type |-> OBJ_TAG, err |-> FALSE]
      [] OTHER -> [type |-> 0, err |-> TRUE]

(***************************************************************************)
(* Pack parser (lines 3907-4011).                                          *)
(***************************************************************************)
s_PACK == <<80, 65, 67, 75>>

\* A uint64 as four 16-bit limbs, the lowest first.
U64(n) == <<n % 65536, (n \div 65536) % 65536, 0, 0>>

\* uint64(g) << shift for a byte g: what is shifted beyond bit 63 is lost.
Shl64(g, shift) ==
    LET q == shift \div 16
        v == g * Pow2(shift % 16)
    IN  [j \in 1..4 |-> IF shift >= 64 THEN 0
                        ELSE IF j - 1 = q THEN v % 65536
                        ELSE IF j - 1 = q + 1 THEN (v \div 65536) % 65536
                        ELSE 0]

\* a + b in uint64: the carry out of bit 63 is lost.
Add64(a, b) ==
    LET s1 == a[1] + b[1]
        s2 == a[2] + b[2] + s1 \div 65536
        s3 == a[3] + b[3] + s2 \div 65536
        s4 == a[4] + b[4] + s3 \div 65536
    IN  <<s1 % 65536, s2 % 65536, s3 % 65536, s4 % 65536>>

\* The loop of parseObjectHeader over the continuation bytes.
RECURSIVE headerLoop(_, _, _, _, _, _)
headerLoop(data, used, byteData, size, shift, objectType) ==
    IF byteData < 128
        THEN [st |-> "ok", size |-> size, used |-> used, type |-> objectType]
    ELSE IF Len(data) <= used \/ 64 <= shift
        THEN [st |-> "err", size |-> U64(0), used |-> 0, type |-> 0]
    ELSE headerLoop(data, used + 1, data[used + 1],
                    Add64(size, Shl64(data[used + 1] % 128, shift)), shift + 7,
                    objectType)

\* A parseObjectHeader whose first continuation byte is shifted by 0.
parseObjectHeaderShiftFromZero(data) ==
    IF data = <<>> THEN [st |-> "panic", size |-> U64(0), used |-> 0, type |-> 0]
    ELSE headerLoop(data, 1, data[1], U64(data[1] % 16), 0, (data[1] \div 16) % 8)

\* parseObjectHeader: type in bits 6..4 of the first byte, size in its low
\* four bits and seven more per continuation byte.
parseObjectHeader(data) ==
    IF data = <<>> THEN [st |-> "panic", size |-> U64(0), used |-> 0, type |-> 0]
    ELSE headerLoop(data, 1, data[1], U64(data[1] % 16), 4, (data[1] \div 16) % 8)

RECURSIVE offsetLoop(_, _, _, _)
offsetLoop(data, b, val, used) ==
    IF b < 128 THEN [st |-> "ok", val |-> val, used |-> used]
    ELSE IF used >= Len(data) THEN [st |-> "panic", val |-> 0, used |-> 0]
    ELSE offsetLoop(data, data[used + 1], (val + 1) * 128 + (data[used + 1] % 128),
                    used + 1)

\* parseDeltaOffset: the OFS_DELTA offset and the bytes it takes.
parseDeltaOffset(data) ==
    IF data = <<>> THEN [st |-> "panic", val |-> 0, used |-> 0]
    ELSE offsetLoop(data, data[1], data[1] % 128, 1)

\* readZlibObject: the stream at the head of pack, and the bytes it takes.
readZlibObject(packData) == zlibReadAll(packData)

\* One GitObject parsed at `offset` of data (the response body without its
\* trailing checksum); st is "ok", "err" or "panic".
parseEntry(body, cap, offset) ==
    LET bad(st) == [st |-> st, obj |-> <<>>, offset |-> offset]
        data == SubSeq(body, 1, Len(body) - DigestLen)
        h == parseObjectHeader(From(data, offset))
        o1 == offset + h.used
        isRef == h.type = OBJ_REF_DELTA
        isOfs == h.type = OBJ_OFS_DELTA
        ofs == parseDeltaOffset(From(data, o1))
        o2 == IF isRef THEN o1 + DigestLen ELSE IF isOfs THEN o1 + ofs.used ELSE o1
        z == readZlibObject(From(data, o2))
    IN  IF offset > Len(data) THEN bad("panic")
        ELSE IF h.st # "ok" THEN bad(h.st)
        ELSE IF isRef /\ ~SliceOK(cap, o1, o1 + DigestLen) THEN bad("panic")
        ELSE IF isOfs /\ (o1 > Len(data) \/ ofs.st # "ok") THEN bad("panic")
        ELSE IF o2 > Len(data) THEN bad("panic")
        ELSE IF z.err THEN bad("err")
        ELSE [st |-> "ok",
              obj |-> [Type |-> h.type,
                       BaseObjHash |-> IF isRef
                                           THEN hexString(Slice(body, o1, o1 + DigestLen))
                                       ELSE <<>>,
                       Data |-> z.data],
              offset |-> o2 + z.used]

RECURSIVE parseEntries(_, _, _, _, _)
parseEntries(body, cap, offset, n, objs) ==
    IF n = 0 THEN [st |-> "ok", objects |-> objs, offset |-> offset]
    ELSE LET e == parseEntry(body, cap, offset)
         IN  IF e.st # "ok" THEN [st |-> e.st, objects |-> <<>>, offset |-> offset]
             ELSE parseEntries(body, cap, e.offset, n - 1, Append(objs, e.obj))

\* parsePackFile on the body of the upload-pack response: drop the trailing
\* checksum, find "PACK", read version and count, then the entries.
parsePackFile(body) ==
    LET bad == [st |-> "panic", objects |-> <<>>, offset |-> 0]
        data == SubSeq(body, 1, Len(body) - DigestLen)
        offset == bytesIndex(data, s_PACK) + 4
    IN  IF Len(body) < DigestLen THEN bad
        ELSE IF ~SliceOK(ReadAllCap, offset, offset + 8) THEN bad
        ELSE parseEntries(body, ReadAllCap, offset + 8,
                          Uint32(Slice(body, offset + 4, offset + 8)), <<>>)

(***************************************************************************)
(* Delta resolver (lines 4045-4149).                                       *)
(***************************************************************************)
\* The loop of parseDeltaSize; size is a byte (uint8), so a shifted group
\* keeps only what falls into its eight bits.
RECURSIVE deltaSizeLoop(_, _, _, _)
deltaSizeLoop(packFile, size, idx, off) ==
    IF packFile[idx] < 128 THEN [st |-> "ok", size |-> size, used |-> idx]
    ELSE IF idx >= Len(packFile) THEN [st |-> "panic", size |-> 0, used |-> 0]
    ELSE deltaSizeLoop(packFile,
                       BitOr(size, ((packFile[idx + 1] % 128)
                                       * (IF off < 8 THEN Pow2(off) ELSE 0)) % 256),
                       idx + 1, off + 7)

parseDeltaSize(packFile) ==
    IF packFile = <<>> THEN [st |-> "panic", size |-> 0, used |-> 0]
    ELSE deltaSizeLoop(packFile, packFile[1] % 128, 1, 7)

\* parseDeltaHeader: source size, target size, bytes read.
parseDeltaHeader(objectData) ==
    LET src == parseDeltaSize(objectData)
        tgt == parseDeltaSize(From(objectData, src.used))
    IN  IF src.st # "ok" \/ tgt.st # "ok"
            THEN [st |-> "panic", srcSize |-> 0, targetSize |-> 0, read |-> 0]
        ELSE [st |-> "ok", srcSize |-> src.size, targetSize |-> tgt.size,
              read |-> src.used + tgt.used]

\* The operand bytes of a copy instruction that the flag bits 0..6 of op
\* select, in order: [present, value] per flag bit; i is the 0-based
\* position of the next byte of delta.
RECURSIVE copyArgs(_, _, _, _, _)
copyArgs(delta, op, bit, i, acc) ==
    IF bit > 6 THEN [st |-> "ok", i |-> i, vals |-> acc]
    ELSE IF Bit(op, bit) = 0 THEN copyArgs(delta, op, bit + 1, i, Append(acc, 0))
    ELSE IF i >= Len(delta) THEN [st |-> "panic", i |-> i, vals |-> acc]
    ELSE copyArgs(delta, op, bit + 1, i + 1, Append(acc, delta[i + 1]))

\* applyDelta: run the copy and insert instructions of delta over base.
\* baseCap and deltaCap are the capacities of the two slices.
RECURSIVE applyDelta(_, _, _, _, _, _)
applyDelta(base, baseCap, delta, deltaCap, i, result) ==
    IF i >= Len(delta) THEN [st |-> "ok", data |-> result]
    ELSE LET op == delta[i + 1]
         IN  IF op >= 128
                 THEN LET a == copyArgs(delta, op, 0, i + 1, <<>>)
                          offset == a.vals[1] + 256 * a.vals[2] + 65536 * a.vals[3]
                                        + 16777216 * a.vals[4]
                          size0 == a.vals[5] + 256 * a.vals[6] + 65536 * a.vals[7]
                          size == IF size0 = 0 THEN 65536 ELSE size0
                      IN  IF a.st # "ok" THEN [st |-> "panic", data |-> <<>>]
                          ELSE IF ~SliceOK(baseCap, offset, offset + size)
                              THEN [st |-> "panic", data |-> <<>>]
                          ELSE applyDelta(base, baseCap, delta, deltaCap, a.i,
                                          result \o Slice(base, offset, offset + size))
             ELSE IF ~SliceOK(deltaCap, i + 1, i + 1 + op)
                 THEN [st |-> "panic", data |-> <<>>]
             ELSE applyDelta(base, baseCap, delta, deltaCap, i + 1 + op,
                             result \o Slice(delta, i + 1, i + 1 + op))

\* writeObjectWithType: the framed object handed to writeObject.
writeObjectWithType(content, objectType) ==
    generateObjectByte(TypeString(objectType), content)

\* A writeRefDeltaObject that frames the payload with the kind of the entry.
writeRefDeltaObjectOwnKind(fs, object) ==
    LET bad(st) == [st |-> st, object |-> <<>>]
        b == readObjectFromHash(fs, object.BaseObjHash)
        h == parseDeltaHeader(object.Data)
        deltaObject == From(object.Data, h.read)
        r == applyDelta(b.body, b.cap, deltaObject, ReadAllCap - h.read, 0, <<>>)
    IN  IF b.st # "ok" THEN bad(b.st)
        ELSE IF h.st # "ok" THEN bad("panic")
        ELSE IF r.st # "ok" THEN bad(r.st)
        ELSE [st |-> "ok", object |-> writeObjectWithType(r.data, object.Type)]

\* writeRefDeltaObject up to its call of writeObject: st is "ok" with the
\* framed object to write, "err" or "panic".
writeRefDeltaObject(fs, object) ==
    LET bad(st) == [st |-> st, object |-> <<>>]
        b == readObjectFromHash(fs, object.BaseObjHash)
        h == parseDeltaHeader(object.Data)
        deltaObject == From(object.Data, h.read)
        r == applyDelta(b.body, b.cap, deltaObject, ReadAllCap - h.read, 0, <<>>)
        t == ObjectTypeFromString(b.type)
    IN  IF b.st # "ok" THEN bad(b.st)
        ELSE IF h.st # "ok" THEN bad("panic")
        ELSE IF r.st # "ok" THEN bad(r.st)
        ELSE IF t.err THEN bad("err")
        ELSE [st |-> "ok", object |-> writeObjectWithType(r.data, t.type)]

(***************************************************************************)
(* Inputs: the packs a remote sends.  A pack is described by its entries   *)
(* (kind, type and payload of the object the entry stands for, base and    *)
(* delta of a deltified one) and encoded to the bytes of the response.     *)
(***************************************************************************)
RECURSIVE sizeTail(_)
sizeTail(n) == IF n < 128 THEN <<n>> ELSE <<128 + (n % 128)>> \o sizeTail(n \div 128)

\* The header of a pack entry: type and size.
entryHeader(type, size) ==
    IF size < 16 THEN <<type * 16 + size>>
    ELSE <<128 + type * 16 + (size % 16)>> \o sizeTail(size \div 16)

RECURSIVE ofsHead(_)
ofsHead(off) ==
    IF off = 0 THEN <<>>
    ELSE ofsHead((off - 1) \div 128) \o <<128 + ((off - 1) % 128)>>

\* The negative offset of an OFS_DELTA entry.
ofsBytes(off) == ofsHead(off \div 128) \o <<off % 128>>

PutUint32(n) == <<(n \div 16777216) % 256, (n \div 65536) % 256, (n \div 256) % 256, n % 256>>

\* The entries encoded one after the other; starts[i] is where entry i
\* starts in the pack.
RECURSIVE encodeEntries(_, _, _, _)
encodeEntries(entries, i, acc, starts) ==
    IF i > Len(entries) THEN acc
    ELSE LET e == entries[i]
             bytes ==
                 CASE e.kind = "base" ->
                          entryHeader(e.type, Len(e.payload)) \o compressObject(e.payload)
                   [] e.kind = "ref" ->
                          entryHeader(OBJ_REF_DELTA, Len(e.delta)) \o e.baseHash
                              \o compressObject(e.delta)
                   [] e.kind = "ofs" ->
                          entryHeader(OBJ_OFS_DELTA, Len(e.delta))
                              \o ofsBytes(Len(acc) - starts[e.base])
                              \o compressObject(e.delta)
         IN  encodeEntries(entries, i + 1, acc \o bytes, Append(starts, Len(acc)))

\* The pack: "PACK", version 2, the number of entries, the entries, and the
\* checksum of all that.
encodePackWith(entries, magic, version, numObjects) ==
    LET head == magic \o PutUint32(version) \o PutUint32(numObjects)
        all == encodeEntries(entries, 1, head, <<>>)
    IN  all \o hashObject(all)

encodePackDeclaring(entries, numObjects) == encodePackWith(entries, s_PACK, 2, numObjects)

encodePack(entries) == encodePackDeclaring(entries, Len(entries))

\* The body of the upload-pack response: the pkt-line "NAK\n", then the pack.
responseBody(entries) == <<48, 48, 48, 56, 78, 65, 75, 10>> \o encodePack(entries)

BaseEntry(type, payload) ==
    [kind |-> "base", type |-> type, payload |-> payload, base |-> 0,
     baseHash |-> <<>>, delta |-> <<>>]

\* "helx": the first three bytes of "hello\n", then "x".
Content3 == <<104, 101, 108, 120>>

\* The delta that makes Content3 of Content1: source size 6, target size 4,
\* copy 3 bytes from offset 0 (0x90, 3), insert 1 byte (1, "x").
Delta13 == <<6, 4, 144, 3, 1, 120>>

RefEntry ==
    [kind |-> "ref", type |-> OBJ_BLOB, payload |-> Content3, base |-> 0,
     baseHash |-> BlobDigest(Content1), delta |-> Delta13]

\* Delta13 with a target size of 5 in its header; its instructions still
\* make the 4 bytes of Content3.
Delta13Size5 == <<6, 5, 144, 3, 1, 120>>

RefEntrySize5 ==
    [kind |-> "ref", type |-> OBJ_BLOB, payload |-> Content3, base |-> 0,
     baseHash |-> BlobDigest(Content1), delta |-> Delta13Size5]

\* Deltas on Content1 that are not valid: a copy of 4 bytes from offset 4 of
\* the 6-byte base (0x91, 4, 4); a copy of 4 bytes from offset 512 (0x92, 2,
\* 4); and Delta13 with the reserved opcode 0 before its insert.
DeltaCopyPastBase == <<6, 4, 145, 4, 4>>
DeltaCopyFarPastBase == <<6, 4, 146, 2, 4>>
DeltaOpcodeZero == <<6, 4, 144, 3, 0, 1, 120>>

\* A REF_DELTA entry on Content1 whose delta stands for no payload.
InvalidRefEntry(delta) ==
    [kind |-> "ref", type |-> OBJ_BLOB, payload |-> <<>>, base |-> 0,
     baseHash |-> BlobDigest(Content1), delta |-> delta]

OfsEntry(base) ==
    [kind |-> "ofs", type |-> OBJ_BLOB, payload |-> Content3, base |-> base,
     baseHash |-> <<>>, delta |-> Delta13]

\* The tree with the one file "a" of Content1, and a commit of it.
TreePayload == treeEntry([Name |-> <<97>>, IsDir |-> FALSE, Hash |-> BlobDigest(Content1),
                          Mode |-> 33188, Children |-> {}])
CommitPayload ==
    createCommitContent(hexString(hashObject(generateObjectByte(s_tree, TreePayload))),
                        <<104, 105>>, <<>>, 1700000000)

\* The tree with the files "a" of Content1 and "b" of Content2, and a
\* commit of it.
TreePayload2 ==
    TreePayload
        \o treeEntry([Name |-> <<98>>, IsDir |-> FALSE, Hash |-> BlobDigest(Content2),
                      Mode |-> 33188, Children |-> {}])
CommitPayload2 ==
    createCommitContent(hexString(hashObject(generateObjectByte(s_tree, TreePayload2))),
                        <<104, 105>>, <<>>, 1700000000)

\* The tree with the one file named by the byte `name`.
TreePayloadOf(name) ==
    treeEntry([Name |-> <<name>>, IsDir |-> FALSE, Hash |-> BlobDigest(Content1),
               Mode |-> 33188, Children |-> {}])

\* The delta that renames the file of a one-file tree: source and target
\* size 13, copy "100644 " (0x90, 7), insert the name (1, name), copy the
\* NUL and the digest from offset 8 (0x91, 8, 5).
RenameDelta(name) ==
    <<9 + DigestLen, 9 + DigestLen, 144, 7, 1, name, 145, 8, 1 + DigestLen>>

\* A REF_DELTA entry for the tree with the file `name`, on the tree with
\* the file `baseName`.
TreeRefEntry(name, baseName) ==
    [kind |-> "ref", type |-> OBJ_TREE, payload |-> TreePayloadOf(name), base |-> 0,
     baseHash |-> hashObject(generateObjectByte(s_tree, TreePayloadOf(baseName))),
     delta |-> RenameDelta(name)]

\* The packs: a blob; commit, tree, blob; a blob and a REF_DELTA on it; a
\* blob and an OFS_DELTA on it; the REF_DELTA before its base; a REF_DELTA
\* whose base is not in the pack; two blobs; a blob and a REF_DELTA whose
\* header declares a wrong target size; a tree, a REF_DELTA on it and a
\* REF_DELTA on that one; a blob and a REF_DELTA that copies from beyond
\* the end of it, within and beyond the capacity of its buffer; a blob and
\* a REF_DELTA with the opcode 0; a blob in a pack of version 9; a blob in
\* a pack without the magic; two blobs, the stream of the second damaged;
\* the commit of a tree of two files, the tree and the blob of the first
\* file only.
Packs ==
    << <<BaseEntry(OBJ_BLOB, Content1)>>,
       <<BaseEntry(OBJ_COMMIT, CommitPayload), BaseEntry(OBJ_TREE, TreePayload),
         BaseEntry(OBJ_BLOB, Content1)>>,
       <<BaseEntry(OBJ_BLOB, Content1), RefEntry>>,
       <<BaseEntry(OBJ_BLOB, Content1), OfsEntry(1)>>,
       <<RefEntry, BaseEntry(OBJ_BLOB, Content1)>>,
       <<BaseEntry(OBJ_BLOB, Content2), RefEntry>>,
       <<BaseEntry(OBJ_BLOB, Content1), BaseEntry(OBJ_BLOB, Content2)>>,
       <<BaseEntry(OBJ_BLOB, Content1), RefEntrySize5>>,
       <<BaseEntry(OBJ_TREE, TreePayload), TreeRefEntry(98, 97), TreeRefEntry(99, 98)>>,
       <<BaseEntry(OBJ_BLOB, Content1), InvalidRefEntry(DeltaCopyPastBase)>>,
       <<BaseEntry(OBJ_BLOB, Content1), InvalidRefEntry(DeltaCopyFarPastBase)>>,
       <<BaseEntry(OBJ_BLOB, Content1), InvalidRefEntry(DeltaOpcodeZero)>>,
       <<BaseEntry(OBJ_BLOB, Content1)>>,
       <<BaseEntry(OBJ_BLOB, Content1)>>,
       <<BaseEntry(OBJ_BLOB, Content1), BaseEntry(OBJ_BLOB, Content2)>>,
       <<BaseEntry(OBJ_COMMIT, CommitPayload2), BaseEntry(OBJ_TREE, TreePayload2),
         BaseEntry(OBJ_BLOB, Content1)>> >>

\* The packs whose header declares one entry less than they hold.
Undercount == {7}

\* The number of entries the header of pack p declares.
numObjectsOf(p) == IF p \in Undercount THEN Len(Packs[p]) - 1 ELSE Len(Packs[p])

\* The packs whose header has a version that no pack has, and the packs
\* whose header starts with "XACK".
BadVersion == {13}
NoMagic == {14}
versionOf(p) == IF p \in BadVersion THEN 9 ELSE 2
magicOf(p) == IF p \in NoMagic THEN <<88, 65, 67, 75>> ELSE s_PACK

\* The packs in which the last byte of the zlib stream of the last entry,
\* its checksum, is damaged.
DamagedLast == {15}

\* The body of the upload-pack response with pack p.
packBody(p) ==
    LET body == <<48, 48, 48, 56, 78, 65, 75, 10>>
                    \o encodePackWith(Packs[p], magicOf(p), versionOf(p), numObjectsOf(p))
    IN  IF p \in DamagedLast
            THEN [body EXCEPT ![Len(body) - DigestLen] = (@ + 1) % 256]
        ELSE body

\* The packs the store's specification clones from.
SomePacks == {4, 6}

\* The framed object entry e of a pack stands for.
EntryObject(e) == generateObjectByte(TypeString(e.type), e.payload)

(***************************************************************************)
(* Refs discovery and the upload-pack request (lines 3777-3871).           *)
(***************************************************************************)
s_HEAD == <<72, 69, 65, 68>>
s_0000 == <<48, 48, 48, 48>>
s_want_sp == <<119, 97, 110, 116, 32>>
s_done_nl == <<100, 111, 110, 101, 10>>
Sharp == 35

HasSuffix(s, suffix) ==
    Len(suffix) <= Len(s) /\ SubSeq(s, Len(s) - Len(suffix) + 1, Len(s)) = suffix

\* bufio.Scanner with ScanLines: the lines of body without their "\n" and
\* without a "\r" before it; no token for nothing after the last "\n".
scanLines(body) ==
    LET parts == Split(body, NL)
        kept == IF parts[Len(parts)] = <<>> THEN SubSeq(parts, 1, Len(parts) - 1)
                ELSE parts
        dropCR(l) == IF l # <<>> /\ l[Len(l)] = 13 THEN SubSeq(l, 1, Len(l) - 1) ELSE l
    IN  [i \in 1..Len(kept) |-> dropCR(kept[i])]

\* The body of the loop of parseRefs on one line: acc is the map and the
\* capabilities so far.
parseRefsLine(acc, line) ==
    LET rest == From(line, 4)
        parts == Split(rest, NUL)
        chunk2 == IF Len(parts[1]) > 4 /\ HasSuffix(parts[1], s_HEAD)
                      THEN From(parts[1], 4)
                  ELSE parts[1]
        chunk == Split(chunk2, SP)
    IN  IF Len(line) > 4 /\ ~IsPrefix(<<Sharp>>, rest)
            THEN [refs |-> IF Len(chunk) >= 2 THEN (chunk[2] :> chunk[1]) @@ acc.refs
                           ELSE acc.refs,
                  capabilities |-> IF Len(parts) > 1 THEN parts[2] ELSE acc.capabilities]
        ELSE acc

RECURSIVE parseRefsLines(_, _, _)
parseRefsLines(acc, lines, i) ==
    IF i > Len(lines) THEN acc
    ELSE parseRefsLines(parseRefsLine(acc, lines[i]), lines, i + 1)

\* parseRefs: the map from ref name to id, and the capabilities; it never
\* returns an error.
parseRefs(body) ==
    parseRefsLines([refs |-> <<>>, capabilities |-> <<>>], scanLines(body), 1)

\* extractHeadFromRefs: refs["HEAD"], the empty string when there is none.
extractHeadFromRefs(byteRefs) ==
    LET r == parseRefs(byteRefs)
    IN  [head |-> IF s_HEAD \in DOMAIN r.refs THEN r.refs[s_HEAD] ELSE <<>>,
         capabilities |-> r.capabilities]

\* The hexadecimal digits of n, lowest last.
RECURSIVE HexOf(_)
HexOf(n) == IF n < 16 THEN <<HexDigit(n)>> ELSE Append(HexOf(n \div 16), HexDigit(n % 16))

\* fmt.Sprintf("%04x", n).
Sprintf04x(n) == PadZero(HexOf(n), 4)

\* A writePktLine that writes the length of the line without the four
\* bytes of the length field.
writePktLineBareLength(line) == Sprintf04x(Len(line)) \o line

\* writePktLine: what it writes to the buffer.
writePktLine(line) == Sprintf04x(Len(line) + 4) \o line

buildUploadPackRequest(hash) ==
    writePktLine(s_want_sp \o hash \o <<NL>>) \o s_0000
        \o writePktLine(s_done_nl) \o s_0000

(***************************************************************************)
(* Inputs: the answers of a remote to GET info/refs.  An advertisement is  *)
(* described by its status, its ref lines (id, name) and the capabilities  *)
(* of the first line, and encoded to the bytes of the response.            *)
(***************************************************************************)
s_service ==
    <<35, 32, 115, 101, 114, 118, 105, 99, 101, 61, 103, 105, 116, 45, 117, 112, 108,
      111, 97, 100, 45, 112, 97, 99, 107, 10>>
s_master == <<114, 101, 102, 115, 47, 104, 101, 97, 100, 115, 47, 109, 97, 115, 116, 101, 114>>
s_origin_HEAD ==
    <<114, 101, 102, 115, 47, 114, 101, 109, 111, 116, 101, 115, 47, 111, 114, 105, 103,
      105, 110, 47, 72, 69, 65, 68>>
s_caps == <<97, 103, 101, 110, 116, 61, 103, 105, 116>>

\* One pkt-line: four hexadecimal digits for the length of the payload
\* plus four, then the payload.
pktLine(payload) == PadZero(HexOf(Len(payload) + 4), 4) \o payload

RECURSIVE refLines(_, _, _)
refLines(lines, caps, i) ==
    IF i > Len(lines) THEN <<>>
    ELSE pktLine(lines[i].id \o <<SP>> \o lines[i].name
                     \o (IF i = 1 THEN <<NUL>> \o caps ELSE <<>>) \o <<NL>>)
             \o refLines(lines, caps, i + 1)

\* The body of the response: service line, flush, ref lines, flush.
encodeAdvert(a) == pktLine(s_service) \o s_0000 \o refLines(a.lines, a.caps, 1) \o s_0000

Id1 == hexString(hashObject(generateObjectByte(s_commit, CommitPayload)))
Id2 == hexString(BlobDigest(Content1))
Id3 == hexString(hashObject(generateObjectByte(s_commit, CommitPayload2)))

RefLine(id, name) == [id |-> id, name |-> name]

\* The advertisements: HEAD and a branch; HEAD, a branch and a ref whose
\* name ends in "HEAD"; a 404; a branch without a HEAD line; a HEAD line
\* whose id is three characters; HEAD and a branch at the commit of the
\* tree of two files.
Adverts ==
    << [status |-> 200, caps |-> s_caps,
        lines |-> <<RefLine(Id1, s_HEAD), RefLine(Id1, s_master)>>],
       [status |-> 200, caps |-> s_caps,
        lines |-> <<RefLine(Id1, s_HEAD), RefLine(Id1, s_master),
                    RefLine(Id2, s_origin_HEAD)>>],
       [status |-> 404, caps |-> <<>>, lines |-> <<>>],
       [status |-> 200, caps |-> s_caps, lines |-> <<RefLine(Id1, s_master)>>],
       [status |-> 200, caps |-> s_caps,
        lines |-> <<RefLine(<<120, 121, 122>>, s_HEAD), RefLine(Id1, s_master)>>],
       [status |-> 200, caps |-> s_caps,
        lines |-> <<RefLine(Id3, s_HEAD), RefLine(Id3, s_master)>>] >>

\* The advertisement the store's and the unpacker's specifications use.
SomeAdverts == {1}

(***************************************************************************)
(* clone (lines 3285-3358): parsePackFile, writePackObjects (4025-4042).   *)
(***************************************************************************)
\* clone into the directory of this repository: os.MkdirAll and os.Chdir
\* succeed, initRepo's error is ignored.  The remote answers GET info/refs
\* with advertisement a; fetchRefs fails on a status that is not 200.  The
\* request for the HEAD of the advertisement is sent; the remote answers
\* with pack p, or with an error status (p = 0); parsePackFile parses the
\* body.
CloneStart(a, p) ==
    /\ pc = "idle" /\ ncmd < MaxCmds
    /\ ncmd' = ncmd + 1
    /\ advert' = a
    /\ out' = <<>>
    /\ LET head == extractHeadFromRefs(encodeAdvert(Adverts[a])).head
           r == parsePackFile(packBody(p))
           fail(st, code) ==
               /\ objects' = <<>>
               /\ objIdx' = 0
               /\ stage' = st
               /\ pc' = "idle"
               /\ exit' = code
       IN  IF Adverts[a].status # 200
               THEN /\ request' = <<>>
                    /\ pack' = 0
                    /\ fail("init", 1)
           ELSE /\ request' = buildUploadPackRequest(head)
                /\ pack' = p
                /\ IF p = 0 THEN fail("refs", 1)
                   ELSE IF r.st = "ok"
                       THEN /\ objects' = r.objects
                            /\ objIdx' = 1
                            /\ stage' = "parse"
                            /\ pc' = "clone"
                            /\ exit' = 0
                   ELSE fail("request", IF r.st = "err" THEN 1 ELSE 2)
    /\ args' = <<>>
    /\ UNCHANGED <<files, dirs, index, wr, killed, put, tree, stack, log, rd, work, call>>

\* The body of the loop of writePackObjects for the next object.
WritePackObject ==
    /\ pc = "clone" /\ stage = "parse" /\ wr.st = "none" /\ objIdx <= Len(objects)
    /\ LET obj == objects[objIdx]
           d == writeRefDeltaObject(files, obj)
       IN  IF obj.Type \in {OBJ_BLOB, OBJ_COMMIT, OBJ_TREE, OBJ_TAG}
               THEN /\ wr' = CallWriteObject(writeObjectWithType(obj.Data, obj.Type))
                    /\ UNCHANGED <<pc, exit, objIdx>>
           ELSE IF obj.Type = OBJ_REF_DELTA
               THEN IF d.st = "ok"
                        THEN /\ wr' = CallWriteObject(d.object)
                             /\ UNCHANGED <<pc, exit, objIdx>>
                    ELSE /\ pc' = "idle"
                         /\ exit' = IF d.st = "err" THEN 1 ELSE 2
                         /\ UNCHANGED <<wr, objIdx>>
           ELSE /\ objIdx' = objIdx + 1
                /\ UNCHANGED <<pc, exit, wr>>
    /\ UNCHANGED <<files, dirs, index, out, ncmd, killed, put, tree, stack, log,
                   pack, objects, stage, rd, advert, request, args, work, call>>

\* writeObject returned: on to the next object.
WritePackObjectReturn ==
    /\ pc = "clone" /\ wr.st = "done"
    /\ put' = Returned(wr)
    /\ wr' = NoWrite
    /\ objIdx' = objIdx + 1
    /\ UNCHANGED <<files, dirs, index, pc, out, exit, ncmd, killed, tree, stack, log,
                   pack, objects, stage, rd, advert, request, args, work, call>>

\* writePackObjects returned nil: every object was gone through.
WritePackObjectsDone ==
    /\ pc = "clone" /\ stage = "parse" /\ wr.st = "none" /\ objIdx > Len(objects)
    /\ stage' = "write"
    /\ UNCHANGED <<files, dirs, index, pc, wr, out, exit, ncmd, killed, put, tree, stack, log,
                   pack, objects, objIdx, rd, advert, request, args, work, call>>

(***************************************************************************)
(* Checkout: renderFilesFromCommit, renderTreeRecursive (lines 4152-4230). *)
(* The working tree maps a path, the sequence of its names, to a           *)
(* directory or to the content of a file.                                  *)
(***************************************************************************)
\* strings.TrimPrefix.
TrimPrefix(str, prefix) ==
    IF IsPrefix(prefix, str) THEN SubSeq(str, Len(prefix) + 1, Len(str)) ELSE str

\* The loop of renderTreeRecursive over the entries of a tree payload from
\* the 0-based position i on, and renderTreeRecursive itself; w is the
\* working tree so far, which a failure leaves as it is.
RECURSIVE renderEntries(_, _, _, _, _, _)
RECURSIVE renderTreeRecursive(_, _, _, _)
renderEntries(fs, data, cap, i, currentPath, w) ==
    IF i >= Len(data) THEN [st |-> "ok", work |-> w]
    ELSE LET modeEnd == IndexByte(From(data, i), SP) - 1
             mode == Slice(data, i, i + modeEnd)
             i2 == i + modeEnd + 1
             nameEnd == IndexByte(From(data, i2), NUL) - 1
             name == Slice(data, i2, i2 + nameEnd)
             i3 == i2 + nameEnd + 1
             objHash == hexString(Slice(data, i3, i3 + DigestLen))
             fullPath == Append(currentPath, name)
             sub == renderTreeRecursive(fs, objHash, fullPath,
                                        (fullPath :> [IsDir |-> TRUE, Data |-> <<>>]) @@ w)
             b == readObjectFromHash(fs, objHash)
         IN  IF modeEnd < 0 \/ nameEnd < 0 \/ ~SliceOK(cap, i3, i3 + DigestLen)
                 THEN [st |-> "panic", work |-> w]
             ELSE IF mode = s_40000
                 THEN IF sub.st # "ok" THEN sub
                      ELSE renderEntries(fs, data, cap, i3 + DigestLen, currentPath, sub.work)
             ELSE IF b.st # "ok" THEN [st |-> b.st, work |-> w]
             ELSE IF b.type # s_blob THEN [st |-> "err", work |-> w]
             ELSE renderEntries(fs, data, cap, i3 + DigestLen, currentPath,
                                (fullPath :> [IsDir |-> FALSE, Data |-> b.body]) @@ w)

renderTreeRecursive(fs, treeHash, currentPath, w) ==
    LET r == readObjectFromHash(fs, treeHash)
    IN  IF r.st # "ok" THEN [st |-> r.st, work |-> w]
        ELSE IF r.type # s_tree THEN [st |-> "err", work |-> w]
        ELSE renderEntries(fs, r.body, r.cap, 0, currentPath, w)

\* renderFilesFromCommit: the tree of the first line of the commit that
\* starts with "tree", rendered at ".".
renderFilesFromCommit(fs, branchHash, w) ==
    LET r == readObjectFromHash(fs, branchHash)
        lines == Split(r.body, NL)
        hits == {k \in 1..Len(lines) : IsPrefix(s_tree, lines[k])}
        first == CHOOSE k \in hits : \A j \in hits : k <= j
        treeHash == IF hits = {} THEN <<>> ELSE TrimPrefix(lines[first], s_tree_sp)
    IN  IF r.st # "ok" THEN [st |-> r.st, work |-> w]
        ELSE IF treeHash = <<>> THEN [st |-> "err", work |-> w]
        ELSE renderTreeRecursive(fs, treeHash, <<>>, w)

\* The last stage of clone: renderFilesFromCommit(hashHead), then exit.
Checkout ==
    /\ pc = "clone" /\ stage = "write"
    /\ LET hashHead == extractHeadFromRefs(encodeAdvert(Adverts[advert])).head
           r == renderFilesFromCommit(files, hashHead, work)
       IN  /\ work' = r.work
           /\ stage' = IF r.st = "ok" THEN "checkout" ELSE "write"
           /\ exit' = IF r.st = "ok" THEN 0 ELSE IF r.st = "err" THEN 1 ELSE 2
    /\ pc' = "idle"
    /\ UNCHANGED <<files, dirs, index, wr, out, ncmd, killed, put, tree, stack, log,
                   pack, objects, objIdx, rd, advert, request, args, call>>

(***************************************************************************)
(* cat-file (lines 3163-3191) run by a second process while the first is   *)
(* anywhere in its command: readObjectFromHash stats the path, reads the   *)
(* file and inflates it.                                                   *)
(***************************************************************************)
NoRead ==
    [hash |-> <<>>, found |-> FALSE, data |-> <<>>, st |-> "none", flag |-> <<>>,
     out |-> <<>>]


\* What cat-file prints for the flag: fmt.Println of the type, of the size
\* or of the content.
catFileOutput(r, flag) ==
    IF r.st # "ok" THEN <<>>
    ELSE IF flag = s_t THEN r.type \o <<NL>>
    ELSE IF flag = s_s THEN r.size \o <<NL>>
    ELSE IF flag = s_p THEN r.body \o <<NL>>
    ELSE <<>>

CatFileCmd ==
    \E c \in Contents, flag \in {s_t, s_s, s_p} :
        LET h == hexString(BlobDigest(c))
            found == objectPath(h) \in DOMAIN files
            r == readObjectFromHash(files, h)
        IN  /\ rd' = [hash |-> h, found |-> found,
                      data |-> IF found THEN files[objectPath(h)] ELSE <<>>,
                      st |-> r.st, flag |-> flag, out |-> catFileOutput(r, flag)]
            /\ rd' # rd
            /\ UNCHANGED <<files, dirs, index, pc, wr, out, exit, ncmd, killed, put,
                           tree, stack, log, cloneVars, args, work, call>>

(***************************************************************************)
(* readGitIndex (lines 3556-3615) on the bytes of .git/index.  The fixed    *)
(* prefix of an entry ends with the digest and the two bytes of flags, so  *)
(* it is 42 + DigestLen bytes here (62 with the 20 bytes of SHA-1).        *)
(***************************************************************************)
s_DIRC == <<68, 73, 82, 67>>

entryHeaderLen == 42 + DigestLen

\* The loop of readGitIndex: n entries from the 0-based offset on; ends
\* collects the offset reached after each entry.
RECURSIVE readIndexEntries(_, _, _, _, _)
readIndexEntries(file, offset, n, entries, ends) ==
    IF n = 0 THEN [st |-> "ok", entries |-> entries, ends |-> ends]
    ELSE IF offset + entryHeaderLen > Len(file)
        THEN [st |-> "err", entries |-> <<>>, ends |-> <<>>]
    ELSE LET entryPrefix == SubSeq(file, offset + 1, offset + entryHeaderLen)
             mode == Uint32(SubSeq(entryPrefix, 25, 28))
             hash == SubSeq(entryPrefix, 41, 40 + DigestLen)
             flags == entryPrefix[41 + DigestLen] * 256 + entryPrefix[42 + DigestLen]
             nameLen == flags % 4096
             totalLen == entryHeaderLen + nameLen
             padding == (8 - (totalLen % 8)) % 8
             nameBytes == SubSeq(file, offset + entryHeaderLen + 1, offset + totalLen)
         IN  IF offset + totalLen + padding > Len(file)
                 THEN [st |-> "err", entries |-> <<>>, ends |-> <<>>]
             ELSE readIndexEntries(file, offset + totalLen + padding, n - 1,
                                   Append(entries, [Path |-> nameBytes, Hash |-> hash,
                                                    Mode |-> mode]),
                                   Append(ends, offset + totalLen + padding))

readGitIndex(file) ==
    IF Len(file) < 12 THEN [st |-> "err", entries |-> <<>>, ends |-> <<>>]
    ELSE IF SubSeq(file, 1, 4) # s_DIRC THEN [st |-> "err", entries |-> <<>>, ends |-> <<>>]
    ELSE IF Uint32(SubSeq(file, 5, 8)) # 2
        THEN [st |-> "err", entries |-> <<>>, ends |-> <<>>]
    ELSE readIndexEntries(file, 12, Uint32(SubSeq(file, 9, 12)), <<>>, <<>>)

(***************************************************************************)
(* Inputs: index files as git writes them (version 2): after the flags of  *)
(* an entry come the path and one to eight NUL bytes, which bring the      *)
(* entry to a multiple of eight bytes.                                     *)
(***************************************************************************)
\* Longest path of an entry of an index file, in bytes.
MaxNameLen == 9

zeros(n) == [i \in 1..n |-> 0]

\* The bytes of one entry, and of the entries one after the other.
encodeIndexEntry(e) ==
    zeros(24) \o PutUint32(e.Mode) \o zeros(12) \o e.Hash
        \o <<Len(e.Path) \div 256, Len(e.Path) % 256>> \o e.Path
        \o zeros(8 - ((entryHeaderLen + Len(e.Path)) % 8))

RECURSIVE encodeIndexEntries(_)
encodeIndexEntries(entries) ==
    IF entries = <<>> THEN <<>>
    ELSE encodeIndexEntry(Head(entries)) \o encodeIndexEntries(Tail(entries))

\* The index file: "DIRC", version 2, the number of entries, the entries,
\* and the checksum of all that.
encodeIndex(entries) ==
    LET all == s_DIRC \o PutUint32(2) \o PutUint32(Len(entries))
                   \o encodeIndexEntries(entries)
    IN  all \o hashObject(all)

\* A path of n letters: "abc...".
nameOf(n) == [i \in 1..n |-> 97 + ((i - 1) % 26)]

\* The index files readGitIndex is called on: one entry, or two, with
\* paths of every length up to MaxNameLen.
IndexFileEntries ==
    { <<[Path |-> nameOf(n), Hash |-> BlobDigest(Content1), Mode |-> 33188]>> :
          n \in 0..MaxNameLen }
        \cup { <<[Path |-> nameOf(n), Hash |-> BlobDigest(Content1), Mode |-> 33188],
                 [Path |-> nameOf(m), Hash |-> BlobDigest(Content2), Mode |-> 33261]>> :
                   n \in 0..MaxNameLen, m \in 0..MaxNameLen }

(***************************************************************************)
(* Functions called on their own, on inputs the commands above do not      *)
(* produce.                                                                *)
(***************************************************************************)
\* Decompressed contents of an object file: a kind, with or without the
\* space after it, a declared size that is or is not the payload's length,
\* with or without the NUL, and the payload.
ObjectFiles ==
    { kind \o sp \o Itoa(Len(payload) + more) \o nul \o payload :
          kind \in {s_blob, s_tree}, sp \in {<<SP>>, <<>>}, more \in {0, 1},
          nul \in {<<NUL>>, <<>>}, payload \in {<<>>, Content1, Content2} }

\* readObjectFromHash on a store that holds the object file under the
\* digest of its contents, or that does not hold it.
ReadObjectCall ==
    /\ call = NoCall
    /\ \E object \in ObjectFiles, present \in BOOLEAN :
           LET objectHash == hexString(hashObject(object))
               fs == IF present THEN objectPath(objectHash) :> compressObject(object)
                     ELSE <<>>
           IN  /\ call' = [fn |-> "readObjectFromHash",
                           input |-> [object |-> object, present |-> present],
                           result |-> readObjectFromHash(fs, objectHash)]
               /\ UNCHANGED <<files, dirs, index, pc, wr, out, exit, ncmd, killed, put,
                              tree, stack, log, cloneVars, rd, args, work>>

\* Longest entry header parseObjectHeader is called on, in bytes.
MaxHeaderLen == 11

\* Entry headers: a first byte, continuation bytes that are all the same,
\* and a last byte; bit 7 is set on all but the last.
Headers ==
    { <<b0>> : b0 \in {30, 69, 112} }
        \cup { <<b0>> \o [i \in 1..(n - 2) |-> b] \o <<bn>> :
                   b0 \in {158, 181, 240}, b \in {128, 132, 255}, bn \in {0, 4, 15, 16, 127},
                   n \in 2..MaxHeaderLen }

\* parseObjectHeader on a header and what follows it in the pack.
ParseObjectHeaderCall ==
    /\ call = NoCall
    /\ \E header \in Headers, rest \in {<<>>, <<255>>} :
           call' = [fn |-> "parseObjectHeader",
                    input |-> [header |-> header, rest |-> rest],
                    result |-> parseObjectHeader(header \o rest)]
    /\ UNCHANGED <<files, dirs, index, pc, wr, out, exit, ncmd, killed, put,
                   tree, stack, log, cloneVars, rd, args, work>>

\* readGitIndex on the index file of the entries.
ReadGitIndexCall ==
    /\ call = NoCall
    /\ \E entries \in IndexFileEntries :
           call' = [fn |-> "readGitIndex",
                    input |-> entries,
                    result |-> readGitIndex(encodeIndex(entries))]
    /\ UNCHANGED <<files, dirs, index, pc, wr, out, exit, ncmd, killed, put,
                   tree, stack, log, cloneVars, rd, args, work>>

(***************************************************************************)
(* The process is killed part-way through a command.                       *)
(***************************************************************************)
Kill ==
    /\ pc # "idle"
    /\ pc' = "idle"
    /\ wr' = NoWrite
    /\ killed' = TRUE
    /\ exit' = 2
    /\ out' = <<>>
    /\ tree' = <<>>
    /\ stack' = <<>>
    /\ objects' = <<>>
    /\ objIdx' = 0
    /\ UNCHANGED <<files, dirs, index, ncmd, put, log, pack, stage, rd, advert, request,
                   args, work, call>>

(***************************************************************************)
(* Inputs: the index files the commands are run on.                        *)
(***************************************************************************)
\* Longest index of the tree builder's specification.
MaxIndex == 3

\* An IndexEntry of a regular file (mode 0100644).
Entry(path, content) == [Path |-> path, Hash |-> BlobDigest(content), Mode |-> 33188]

\* a, a (other content), b, a/b, d/a, d/e/b
IndexEntries ==
    { Entry(<<97>>, Content1), Entry(<<97>>, Content2), Entry(<<98>>, Content1),
      Entry(<<97, 47, 98>>, Content1), Entry(<<100, 47, 97>>, Content1),
      Entry(<<100, 47, 101, 47, 98>>, Content2) }

\* Every index of at most n entries, in every order.
Indexes(n) == UNION {[1..k -> IndexEntries] : k \in 0..n}

\* The index init writes, and one with nested directories: d/e/b, a, d/a.
SomeIndexes ==
    { <<>>,
      <<Entry(<<100, 47, 101, 47, 98>>, Content2), Entry(<<97>>, Content1),
        Entry(<<100, 47, 97>>, Content1)>> }

(***************************************************************************)
(* Specification.                                                          *)
(***************************************************************************)
Init ==
    /\ files = <<>>
    /\ dirs = {}
    /\ index \in SomeIndexes
    /\ pc = "idle"
    /\ wr = NoWrite
    /\ out = <<>>
    /\ exit = 0
    /\ ncmd = 0
    /\ killed = FALSE
    /\ put = <<>>
    /\ tree = <<>>
    /\ stack = <<>>
    /\ log = <<>>
    /\ pack = 0
    /\ objects = <<>>
    /\ objIdx = 0
    /\ stage = "none"
    /\ rd = NoRead
    /\ advert = 0
    /\ request = <<>>
    /\ args = <<>>
    /\ work = <<>>
    /\ call = NoCall

Next ==
    \/ HashObjectCmd
    \/ HashObjectReturn
    \/ WriteObjectBegin
    \/ WriteObjectCreate
    \/ WriteObjectWrite
    \/ WriteTreeCmd
    \/ DfsDescend
    \/ DfsCreateTree
    \/ DfsReturn
    \/ CommitTreeCmd
    \/ CommitTreeReturn
    \/ \E a \in SomeAdverts, p \in SomePacks : CloneStart(a, p)
    \/ WritePackObject
    \/ WritePackObjectReturn
    \/ WritePackObjectsDone
    \/ Checkout
    \/ Kill

Spec == Init /\ [][Next]_vars

(***************************************************************************)
(* The tree builder on every index of at most MaxIndex entries.            *)
(***************************************************************************)
InitTree ==
    /\ files = <<>>
    /\ dirs = {}
    /\ index \in Indexes(MaxIndex)
    /\ pc = "idle"
    /\ wr = NoWrite
    /\ out = <<>>
    /\ exit = 0
    /\ ncmd = 0
    /\ killed = FALSE
    /\ put = <<>>
    /\ tree = <<>>
    /\ stack = <<>>
    /\ log = <<>>
    /\ pack = 0
    /\ objects = <<>>
    /\ objIdx = 0
    /\ stage = "none"
    /\ rd = NoRead
    /\ advert = 0
    /\ request = <<>>
    /\ args = <<>>
    /\ work = <<>>
    /\ call = NoCall

NextTree ==
    \/ HashObjectCmd
    \/ HashObjectReturn
    \/ WriteObjectBegin
    \/ WriteObjectCreate
    \/ WriteObjectWrite
    \/ WriteTreeCmd
    \/ DfsDescend
    \/ DfsCreateTree
    \/ DfsReturn

SpecTree == InitTree /\ [][NextTree]_vars

(***************************************************************************)
(* The unpacker on every pack of Packs, in a store hash-object may have    *)
(* written to.                                                             *)
(***************************************************************************)
NextPack ==
    \/ HashObjectCmd
    \/ HashObjectReturn
    \/ WriteObjectBegin
    \/ WriteObjectCreate
    \/ WriteObjectWrite
    \/ \E a \in SomeAdverts, p \in 1..Len(Packs) : CloneStart(a, p)
    \/ WritePackObject
    \/ WritePackObjectReturn
    \/ WritePackObjectsDone
    \/ Checkout

SpecPack == Init /\ [][NextPack]_vars

(***************************************************************************)
(* hash-object -w in one process, cat-file in another.                     *)
(***************************************************************************)
NextRead ==
    \/ HashObjectCmd
    \/ HashObjectReturn
    \/ WriteObjectBegin
    \/ WriteObjectCreate
    \/ WriteObjectWrite
    \/ CatFileCmd

SpecRead == Init /\ [][NextRead]_vars

(***************************************************************************)
(* clone against every advertisement of Adverts; the remote answers the    *)
(* request with the pack of a commit, a tree and a blob, or an error.      *)
(***************************************************************************)
NextRefs ==
    \/ \E a \in 1..Len(Adverts), p \in {0, 2, 11, 16} : CloneStart(a, p)
    \/ WritePackObject
    \/ WritePackObjectReturn
    \/ WritePackObjectsDone
    \/ Checkout
    \/ WriteObjectBegin
    \/ WriteObjectCreate
    \/ WriteObjectWrite

SpecRefs == Init /\ [][NextRefs]_vars

\* The functions called on their own.
NextCalls ==
    \/ ReadObjectCall
    \/ ParseObjectHeaderCall
    \/ ReadGitIndexCall

SpecCalls == Init /\ [][NextCalls]_vars

(***************************************************************************)
(* Properties.                                                             *)
(***************************************************************************)
\* The file writeObject is in the middle of writing.
InFlight(path) == wr.st = "write" /\ path = objectPath(hexString(wr.hash))

\* What readObjectFromHash returns for the file at path is a framed object:
\* a known kind, and the decimal length of the payload as its size.
FramedAt(fs, path) ==
    LET r == readObjectFromHash(fs, path[1] \o path[2])
    IN  /\ r.st = "ok"
        /\ r.type \in {s_blob, s_tree, s_commit, s_tag}
        /\ r.size = Itoa(Len(r.body))

\* C1: in every state reached by hash-object -w, write-tree, commit-tree and
\* clone commands that were not killed, every object file of the store -
\* but the one writeObject is still writing - holds a zlib stream of a
\* framed object "<kind> <size>\0<payload>" whose digest names the file.
C1_HashIdentity ==
    ~killed =>
        \A path \in DOMAIN files :
            InFlight(path) \/ (HashIdentityAt(files, path) /\ FramedAt(files, path))

\* C1 witness: a clone has unpacked its objects into a store that
\* hash-object wrote to before.
C1_Witness ==
    /\ ~killed /\ pc = "idle" /\ stage = "write"
    /\ Cardinality(DOMAIN files) >= 3
    /\ \A path \in DOMAIN files : HashIdentityAt(files, path)

\* C2: while writeObject runs on framed bytes that an earlier call has
\* returned a digest for, no step changes the store, and the call returns
\* the digest the earlier call returned.
C2_PutIdempotent ==
    [][(wr.st # "none" /\ wr.object \in DOMAIN put) =>
          /\ files' = files
          /\ wr'.st = "done" => wr'.hash = put[wr.object]]_vars

\* C2 witness: a second writeObject of the same framed bytes has returned.
C2_Witness ==
    /\ wr.st = "done" /\ wr.object \in DOMAIN put
    /\ wr.hash = put[wr.object]
    /\ objectPath(hexString(wr.hash)) \in DOMAIN files

\* C3: no step of any command, a failing clone and a kill included, deletes
\* an object file, and none changes the content of one, but for
\* os.WriteFile filling the file it has just created.
C3_StoreOnlyGrows ==
    [][\A path \in DOMAIN files :
          /\ path \in DOMAIN files'
          /\ files'[path] = files[path] \/ InFlight(path)]_vars

\* C3 witness: a clone failed after it had written an object, and the
\* object is still there.
C3_Witness ==
    /\ pc = "idle" /\ pack # 0 /\ stage = "parse" /\ exit = 1
    /\ objIdx > 1
    /\ objectPath(hexString(hashObject(EntryObject(Packs[pack][1])))) \in DOMAIN files

\* C4: whenever cat-file in a second process finds the file of a digest, the
\* file it reads is the complete compressed object of that digest.
C4_ReaderNeverSeesPartial ==
    (rd.st # "none" /\ rd.found) =>
        LET z == zlibReadAll(rd.data)
        IN  /\ ~z.err
            /\ z.used = Len(rd.data)
            /\ hexString(hashObject(z.data)) = rd.hash

\* C5: after a kill, once no command is running, every object file of the
\* store is complete and satisfies hash identity - also after a later
\* command has persisted the digest of a file the kill left behind.
C5_NoCorruptObjectAfterKill ==
    (killed /\ pc = "idle") =>
        \A path \in DOMAIN files : HashIdentityAt(files, path)

\* C6: every entry of every tree that write-tree has written - a blob of
\* the index as well as a subtree - names an object that is in the store.
C6_TreeReferencesPersisted ==
    \A i \in 1..Len(log) :
        log[i] \in DOMAIN tree =>
            \A c \in tree[log[i]].Children :
                objectPath(hexString(tree[Append(log[i], c)].Hash)) \in DOMAIN files

\* e is a directory of the tree below d: every node from d down to e is a
\* directory node.
DirBelow(e, d) ==
    /\ Len(e) > Len(d)
    /\ SubSeq(e, 1, Len(d)) = d
    /\ \A k \in (Len(d) + 1)..Len(e) : tree[SubSeq(e, 1, k)].IsDir

\* The tree of node e was written as the j-th tree and is in the store.
PersistedAt(e, j) ==
    /\ log[j] = e
    /\ objectPath(hexString(tree[e].Hash)) \in DOMAIN files

Reorderings(indexEntries) ==
    {[i \in 1..Len(indexEntries) |-> indexEntries[f[i]]] :
         f \in Permutations(1..Len(indexEntries))}

\* C8: when write-tree has returned the root digest for the index, it is
\* the digest write-tree produces for the same entries in every other order.
C8_TreeDeterminism ==
    (pc = "idle" /\ tree # <<>> /\ log # <<>>) =>
        \A other \in Reorderings(index) : writeTreeDigest(other) = tree[<<>>].Hash

\* C9: when write-tree returns, it has printed the hexadecimal form of a
\* digest of full length, the root's, and the tree object of that digest is
\* in the store - for the index without entries as well.
C9_WriteTreePrintsRoot ==
    [][((WriteTreeCmd \/ DfsReturn) /\ pc' = "idle") =>
          /\ Len(tree'[<<>>].Hash) = DigestLen
          /\ out' = hexString(tree'[<<>>].Hash) \o <<NL>>
          /\ objectPath(hexString(tree'[<<>>].Hash)) \in DOMAIN files'
          /\ HashIdentityAt(files', objectPath(hexString(tree'[<<>>].Hash)))]_vars

\* The object of entry i of pack p is in the store.
EntryStored(p, i) ==
    objectPath(hexString(hashObject(EntryObject(Packs[p][i])))) \in DOMAIN files

\* Pack p declares the entries it holds, and the header of every delta in
\* it declares the length of the payload the delta stands for.
ValidPack(p) ==
    /\ p \in 1..Len(Packs)
    /\ p \notin Undercount \cup BadVersion \cup NoMagic \cup DamagedLast
    /\ \A i \in 1..Len(Packs[p]) :
           Packs[p][i].kind # "base" =>
               parseDeltaHeader(Packs[p][i].delta).targetSize = Len(Packs[p][i].payload)

\* C10: after parsePackFile and writePackObjects have succeeded on a pack,
\* the object of every entry of the pack - OFS_DELTA and REF_DELTA entries
\* included - is in the store.
C10_PackCompleteness ==
    (stage \in {"write", "checkout"} /\ ValidPack(pack)) =>
        /\ Len(objects) = Len(Packs[pack])
        /\ \A i \in 1..Len(Packs[pack]) :
               objectPath(hexString(hashObject(EntryObject(Packs[pack][i]))))
                   \in DOMAIN files

\* A valid pack without OFS_DELTA entries in which the base of every
\* REF_DELTA entry is the object of an entry of the pack.
SelfContained(p) ==
    /\ ValidPack(p)
    /\ \A i \in 1..Len(Packs[p]) :
           /\ Packs[p][i].kind # "ofs"
           /\ Packs[p][i].kind = "ref" =>
                  \E j \in 1..Len(Packs[p]) :
                      hashObject(EntryObject(Packs[p][j])) = Packs[p][i].baseHash

\* C11: a clone of a pack whose REF_DELTA entries all have their base in
\* the pack - before or after the delta - ends with writePackObjects
\* succeeded and the object of every entry in the store.
C11_RefDeltaDeferred ==
    (pc = "idle" /\ pack # 0 /\ SelfContained(pack)) =>
        /\ stage \in {"write", "checkout"}
        /\ \A i \in 1..Len(Packs[pack]) : EntryStored(pack, i)

\* C12: after writePackObjects has succeeded on a valid pack, the object
\* every OFS_DELTA entry reconstructs from the entry at its negative offset
\* is in the store.
C12_OfsDeltaResolved ==
    (stage \in {"write", "checkout"} /\ ValidPack(pack)) =>
        \A i \in 1..Len(Packs[pack]) :
            Packs[pack][i].kind = "ofs" => EntryStored(pack, i)

\* writeObject is running, or has returned, for entry objIdx of the pack,
\* a delta.
DeltaInFlight ==
    /\ pc = "clone" /\ wr.st # "none"
    /\ objIdx \in 1..Len(objects)
    /\ objects[objIdx].Type \in {OBJ_OFS_DELTA, OBJ_REF_DELTA}

\* C13: the payload writeRefDeltaObject reconstructs from a base and a delta
\* is the concatenation the instructions of the delta stand for, and has
\* the length the header of the delta declares as the target size.
C13_DeltaCorrectness ==
    DeltaInFlight =>
        LET payload == CutNul(wr.object).after
        IN  /\ payload = Packs[pack][objIdx].payload
            /\ Len(payload) = parseDeltaHeader(objects[objIdx].Data).targetSize

\* The kind of the non-delta object at the end of the chain of bases of
\* entry i of pack p; a base that is not in the pack is a blob hash-object
\* wrote.
RECURSIVE ultimateKind(_, _)
ultimateKind(p, i) ==
    LET e == Packs[p][i]
        bases == {j \in 1..Len(Packs[p]) :
                      hashObject(EntryObject(Packs[p][j])) = e.baseHash}
    IN  IF e.kind = "base" THEN e.type
        ELSE IF e.kind = "ofs" THEN ultimateKind(p, e.base)
        ELSE IF bases = {} THEN OBJ_BLOB
        ELSE ultimateKind(p, CHOOSE j \in bases : TRUE)

\* The kind in the header of a framed object.
headerKind(object) == Split(CutNul(object).before, SP)[1]

\* C14: the object handed to writeObject for a delta entry is framed with
\* the kind of the non-delta object at the end of its chain of bases - blob,
\* tree, commit or tag, never a delta kind.
C14_UltimateBaseKind ==
    DeltaInFlight =>
        /\ headerKind(wr.object) = TypeString(ultimateKind(pack, objIdx))
        /\ headerKind(wr.object) \in {s_blob, s_tree, s_commit, s_tag}

\* C14 witness: the delta on a delta on a tree has been persisted as a tree.
C14_Witness ==
    /\ DeltaInFlight /\ wr.st = "done"
    /\ Packs[pack][objIdx].kind = "ref"
    /\ \E j \in 1..Len(Packs[pack]) :
           /\ Packs[pack][j].kind = "ref"
           /\ hashObject(EntryObject(Packs[pack][j])) = Packs[pack][objIdx].baseHash
    /\ headerKind(wr.object) = s_tree
    /\ objectPath(hexString(wr.hash)) \in DOMAIN files

\* C19: when parsePackFile has succeeded on the body of a response, it has
\* produced as many entries as the header declares and its cursor is at
\* the start of the trailing checksum.
C19_CursorAtTrailer ==
    (pack # 0 /\ stage \in {"parse", "write", "checkout"}) =>
        LET r == parsePackFile(packBody(pack))
        IN  /\ r.st = "ok"
            /\ Len(objects) = numObjectsOf(pack)
            /\ r.offset = Len(packBody(pack)) - DigestLen

\* C15: a clone started in a directory in which an earlier clone has run,
\* to its end or not, fails without sending a request, and without
\* fetching or unpacking anything.
C15_SecondCloneFails ==
    [][((\E a \in 1..Len(Adverts), p \in 0..Len(Packs) : CloneStart(a, p)) /\ advert # 0) =>
          /\ pc' = "idle" /\ exit' # 0
          /\ request' = <<>>
          /\ objects' = <<>>]_vars

\* id is an object id: hexadecimal digits, two for each byte of a digest.
IsHexId(id) ==
    /\ Len(id) = 2 * DigestLen
    /\ \A i \in 1..Len(id) : id[i] \in (48..57) \cup (97..102)

\* An advertisement of the specified shape: status 200, the first line
\* HEAD, every line an id, a space and a name.
WellShaped(a) ==
    /\ a.status = 200
    /\ a.lines # <<>> /\ a.lines[1].name = s_HEAD
    /\ \A i \in 1..Len(a.lines) : IsHexId(a.lines[i].id)

\* C16: from an advertisement of the specified shape, parseRefs returns the
\* map with the name of every line, HEAD and any other, mapped to the id of
\* the line, and the capabilities of the first line.
C16_RefsMapped ==
    (advert # 0 /\ WellShaped(Adverts[advert])) =>
        LET a == Adverts[advert]
            r == parseRefs(encodeAdvert(a))
        IN  /\ DOMAIN r.refs = {a.lines[i].name : i \in 1..Len(a.lines)}
            /\ \A i \in 1..Len(a.lines) : r.refs[a.lines[i].name] = a.lines[i].id
            /\ r.capabilities = a.caps

\* C17: after a clone got a status other than 200 or an advertisement that
\* is not of the specified shape, it has stopped with no upload-pack
\* request sent.
C17_BadRefsStopClone ==
    (advert # 0 /\ ~WellShaped(Adverts[advert])) =>
        /\ request = <<>>
        /\ stage = "init"
        /\ pc # "clone"

\* The pkt-lines of a byte string, read back: the payload of each line,
\* <<>> for a flush packet; "malformed" when a length is not four
\* hexadecimal digits or does not fit.
HexVal(c) == IF c \in 48..57 THEN c - 48 ELSE IF c \in 97..102 THEN c - 87 ELSE 0 - 1

RECURSIVE readPktLines(_)
readPktLines(bytes) ==
    IF bytes = <<>> THEN <<>>
    ELSE IF Len(bytes) < 4 \/ \E i \in 1..4 : HexVal(bytes[i]) < 0 THEN <<"malformed">>
    ELSE LET n == 4096 * HexVal(bytes[1]) + 256 * HexVal(bytes[2])
                      + 16 * HexVal(bytes[3]) + HexVal(bytes[4])
         IN  IF n = 0 THEN <<s_0000>> \o readPktLines(SubSeq(bytes, 5, Len(bytes)))
             ELSE IF n < 4 \/ n > Len(bytes) THEN <<"malformed">>
             ELSE <<SubSeq(bytes, 5, n)>> \o readPktLines(SubSeq(bytes, n + 1, Len(bytes)))

C20_BlobRoundTrip ==
    [][\A B \in Contents :
          (/\ rd' # rd
           /\ generateObjectByte(s_blob, B) \in DOMAIN put
           /\ rd'.hash = hexString(BlobDigest(B))) =>
              /\ rd'.st = "ok"
              /\ objectPath(rd'.hash) \in DOMAIN files
              /\ rd'.flag = s_p => rd'.out = B
              /\ rd'.flag = s_t => rd'.out = s_blob \o <<NL>>
              /\ rd'.flag = s_s => rd'.out = Itoa(Len(B)) \o <<NL>>]_vars

\* The `parent <hex>` lines of the parents a commit-tree command line
\* <tree> {-p <parent>} -m <message> gives, from its k-th flag on, in the
\* order given.
RECURSIVE givenParentLines(_, _)
givenParentLines(a, k) ==
    IF 2 * k + 1 > Len(a) THEN <<>>
    ELSE (IF a[2 * k] = s_p THEN s_parent_sp \o a[2 * k + 1] \o <<NL>> ELSE <<>>)
             \o givenParentLines(a, k + 1)

\* The message the command line gives: the argument after -m.
givenMessage(a) ==
    a[1 + CHOOSE i \in 2..(Len(a) - 1) : i % 2 = 0 /\ a[i] = s_m]

\* The payload the command line asks for, written at the given time.
givenCommitPayload(a, timestamp) ==
    LET who == authorName \o <<SP, 60>> \o authorEmail \o <<62, SP>>
                   \o Itoa(timestamp) \o <<SP>> \o timezoneOffset \o <<NL>>
    IN  s_tree_sp \o a[1] \o <<NL>>
            \o givenParentLines(a, 1)
            \o s_author_sp \o who
            \o s_committer_sp \o who
            \o <<NL>>
            \o givenMessage(a) \o <<NL>>

\* C21: every commit-tree command hands writeObject a commit whose payload is
\* the tree line, one parent line per given parent in the given order (none,
\* one, or several for a merge), the author line, the committer line, a
\* blank line and the message ending with one newline.
C21_CommitPayload ==
    [][(ncmd' = ncmd + 1 /\ args' # <<>>) =>
           /\ pc' = "commit-tree"
           /\ \E timestamp \in Timestamps :
                  wr'.object = generateObjectByte(s_commit,
                                                  givenCommitPayload(args', timestamp))]_vars

\* A well-formed object: `<kind> <size>`, a NUL, and a payload of the
\* declared size.
WellFormedObject(object) ==
    LET cut == CutNul(object)
        parts == Split(cut.before, SP)
    IN  /\ cut.found
        /\ Len(parts) = 2
        /\ parts[2] = Itoa(Len(cut.after))

\* C22: readObjectFromHash returns an error when no file exists for the
\* digest, returns an error and never a result or a crash when the object
\* has no space or no NUL in its header or declares another size than its
\* payload has, and returns the kind and the payload of a well-formed
\* object.
C22_GetOnlyWellFormed ==
    call.fn = "readObjectFromHash" =>
        IF ~call.input.present \/ ~WellFormedObject(call.input.object)
            THEN call.result.st = "err"
        ELSE /\ call.result.st = "ok"
             /\ generateObjectByte(call.result.type, call.result.body) = call.input.object

\* Two entries of the index give the same name twice at one level: the same
\* path, or a path that is a file in one and a directory in the other.
MalformedIndex(indexEntries) ==
    \E i, j \in 1..Len(indexEntries) :
        /\ i # j
        /\ \/ indexEntries[i].Path = indexEntries[j].Path
           \/ IsPrefix(indexEntries[i].Path \o <<Slash>>, indexEntries[j].Path)

\* The file at path holds a complete tree object.
TreeObjectAt(fs, path) ==
    LET r == readObjectFromHash(fs, path[1] \o path[2])
    IN  r.st = "ok" /\ r.type = s_tree

\* C23: on an index with duplicate names at one level write-tree stops with
\* an error: it never goes on to write trees, and no tree object is in the
\* store.
C23_MalformedIndexRejected ==
    MalformedIndex(index) =>
        /\ pc # "write-tree"
        /\ \A path \in DOMAIN files : ~TreeObjectAt(files, path)

\* The instructions of a delta, from the 0-based position i on, hold the
\* reserved opcode 0 or a copy that reaches beyond a base of baseLen bytes.
RECURSIVE deltaDefect(_, _, _)
deltaDefect(baseLen, instr, i) ==
    IF i >= Len(instr) THEN FALSE
    ELSE LET op == instr[i + 1]
             a == copyArgs(instr, op, 0, i + 1, <<>>)
             offset == a.vals[1] + 256 * a.vals[2] + 65536 * a.vals[3]
                           + 16777216 * a.vals[4]
             size0 == a.vals[5] + 256 * a.vals[6] + 65536 * a.vals[7]
             size == IF size0 = 0 THEN 65536 ELSE size0
         IN  IF op = 0 THEN TRUE
             ELSE IF op >= 128
                 THEN a.st # "ok" \/ offset + size > baseLen
                          \/ deltaDefect(baseLen, instr, a.i)
             ELSE deltaDefect(baseLen, instr, i + 1 + op)

\* Entry i of pack p is a REF_DELTA on an entry of the pack, and its delta
\* is invalid for that base.
InvalidDeltaEntry(p, i) ==
    LET e == Packs[p][i]
    IN  /\ e.kind = "ref"
        /\ \E j \in 1..Len(Packs[p]) :
               /\ Packs[p][j].kind = "base"
               /\ hashObject(EntryObject(Packs[p][j])) = e.baseHash
               /\ deltaDefect(Len(Packs[p][j].payload),
                              From(e.delta, parseDeltaHeader(e.delta).read), 0)

\* C24: writePackObjects, at an entry whose delta copies from outside its
\* base or holds the opcode 0, hands nothing to writeObject, does not go on
\* to the next entry, and ends the clone with an error, not with a crash.
C24_InvalidDeltaRejected ==
    (pack # 0 /\ objects # <<>>) =>
        \A i \in 1..Len(Packs[pack]) :
            InvalidDeltaEntry(pack, i) =>
                /\ ~(pc = "clone" /\ objIdx = i /\ wr.st # "none")
                /\ objIdx <= i
                /\ (pc = "idle" /\ objIdx = i) => exit = 1

\* The body of a response has no "PACK" in it, or the four bytes after the
\* magic are not the big-endian 2 or 3 of the pack versions there are.
BadPackHeader(body) ==
    LET at == bytesIndex(body, s_PACK)
    IN  \/ at = -1
        \/ at + 8 > Len(body)
        \/ Uint32(SubSeq(body, at + 5, at + 8)) \notin {2, 3}

\* C25: a clone whose upload-pack response has no PACK magic, or a version
\* that is not supported after it, ends in parsePackFile with an error: no
\* entry is returned and writePackObjects is never started.
C25_BadPackHeaderRejected ==
    [][(ncmd' = ncmd + 1 /\ pack' # 0 /\ BadPackHeader(packBody(pack'))) =>
          /\ pc' = "idle" /\ exit' = 1
          /\ stage' = "request"
          /\ objects' = <<>>]_vars

\* Bit k of the size a header stands for: bits 3..0 of the first byte,
\* then bits 6..0 of every further byte, seven bits higher each.
headerSizeBit(header, k) ==
    IF k < 4 THEN Bit(header[1], k)
    ELSE IF (k - 4) \div 7 + 2 > Len(header) THEN 0
    ELSE Bit(header[(k - 4) \div 7 + 2], (k - 4) % 7)

\* The size of the header fits in 64 bits.
FitsIn64(header) ==
    \A k \in 64..(4 + 7 * Len(header)) : headerSizeBit(header, k) = 0

\* Bits lo..(lo + n - 1) of the size of the header, as a number.
RECURSIVE headerSizeBits(_, _, _)
headerSizeBits(header, lo, n) ==
    IF n = 0 THEN 0
    ELSE headerSizeBit(header, lo) + 2 * headerSizeBits(header, lo + 1, n - 1)

\* The size of a header that fits in 64 bits, in 16-bit limbs.
headerSize(header) == [j \in 1..4 |-> headerSizeBits(header, 16 * (j - 1), 16)]

\* What the claim has parseObjectHeader return for the header.
DecodedAsClaimed(header, r) ==
    /\ r.st = "ok"
    /\ r.type = (header[1] \div 16) % 8
    /\ r.size = headerSize(header)
    /\ r.used = Len(header)

\* C26 as stated: for every header whose size fits in 64 bits,
\* parseObjectHeader returns the kind in bits 6..4 of the first byte, the
\* size (b0 & 0x0F) + sum of (bi & 0x7F) << (4 + 7*(i-1)), and the number
\* of bytes of the header as used.
C26_HeaderDecodingAnyLength ==
    (call.fn = "parseObjectHeader" /\ FitsIn64(call.input.header)) =>
        DecodedAsClaimed(call.input.header, call.result)

\* C26, amended: that holds for every header of at most ten bytes whose
\* size fits in 64 bits; a header of more than ten bytes is answered with
\* an error, whatever its size.
C26_HeaderDecoding ==
    call.fn = "parseObjectHeader" =>
        /\ (Len(call.input.header) <= 10 /\ FitsIn64(call.input.header)) =>
               DecodedAsClaimed(call.input.header, call.result)
        /\ Len(call.input.header) > 10 => call.result.st = "err"

\* C26 witness: the bytes 0x9E 0x04 were decoded to kind 1, size 78, used 2.
C26_Witness ==
    /\ call.fn = "parseObjectHeader"
    /\ call.input.header = <<158, 4>>
    /\ call.result = [st |-> "ok", type |-> 1, size |-> U64(78), used |-> 2]

\* The 0-based offset at which entry i of the index file of the entries
\* starts.
indexEntryStart(entries, i) == 12 + Len(encodeIndexEntries(SubSeq(entries, 1, i - 1)))

\* C27: readGitIndex returns the entries of the index file in file order,
\* and for each entry it consumes the prefix, the path and padding up to a
\* multiple of 8 bytes that holds at least one NUL after the path, so that
\* it stands at the start of the next entry.
C27_IndexEntryFraming ==
    call.fn = "readGitIndex" =>
        /\ call.result.st = "ok"
        /\ call.result.entries = call.input
        /\ \A i \in 1..Len(call.input) :
               LET start == indexEntryStart(call.input, i)
                   consumed == call.result.ends[i] - start
               IN  /\ consumed % 8 = 0
                   /\ consumed >= entryHeaderLen + Len(call.input[i].Path) + 1
                   /\ call.result.ends[i] = indexEntryStart(call.input, i + 1)

\* The entry of pack p at which parsePackFile fails: the damaged last one,
\* or the first when the header is not found.
failingEntry(p) == IF p \in DamagedLast THEN Len(Packs[p]) ELSE 1

\* C28: when the processing of a pack has failed at entry k - in
\* parsePackFile or in writePackObjects - the object of every base entry
\* before k is in the store.
C28_BasesPersistedAsParsed ==
    (pack # 0 /\ pc = "idle" /\ exit # 0 /\ stage \in {"request", "parse"}) =>
        LET k == IF stage = "parse" THEN objIdx ELSE failingEntry(pack)
        IN  \A i \in 1..(k - 1) :
                Packs[pack][i].kind = "base" => EntryStored(pack, i)

\* The directories of the tree write-tree built: the root and every node
\* reached from it through directory nodes.
dirNodes == {<<>>} \cup {e \in DOMAIN tree : DirBelow(e, <<>>)}

\* C29: in whatever order the range over the children map visits the
\* subdirectories, (1) when the payload of a directory is built, the digest
\* of every child is set, at its full length, and (2) when write-tree has
\* returned, the trees written are those of the directories of the index,
\* each once the same object as in any other order, in the store, and the
\* root digest is the one of any other order.
C29_VisitOrderIndependence ==
    /\ (pc = "write-tree" /\ wr.st # "none") =>
           \A c \in tree[Top.node].Children :
               Len(tree[Append(Top.node, c)].Hash) = DigestLen
    /\ (pc = "idle" /\ tree # <<>> /\ log # <<>>) =>
           LET final == dfsTreeCreation(makeDirTree(index), <<>>)
           IN  /\ {log[i] : i \in 1..Len(log)} = dirNodes
               /\ Len(log) = Cardinality(dirNodes)
               /\ \A d \in dirNodes :
                      /\ tree[d].Hash = final[d].Hash
                      /\ objectPath(hexString(tree[d].Hash)) \in DOMAIN files
               /\ tree[<<>>].Hash = writeTreeDigest(index)

\* C29 witness: write-tree has returned after visiting two sibling
\* directories in the order opposite to that of their names.
C29_Witness ==
    /\ pc = "idle" /\ tree # <<>> /\ log # <<>>
    /\ \E i, j \in 1..Len(log) :
           /\ i < j
           /\ Len(log[i]) = 1 /\ Len(log[j]) = 1
           /\ LexLess(log[j][1], log[i][1])

\* C30: the stages of a clone run in the order refs discovery, upload-pack
\* request, pack parse, object write, checkout, each only after the one
\* before it succeeded - the working tree is written only by the step
\* that follows a successful object write - and a clone that fails exits
\* with status 1 and has written no file of the working tree.
C30_ClonePipeline ==
    [][/\ stage' # stage =>
              \/ pc = "idle" /\ stage' \in {"init", "refs", "request", "parse"}
              \/ stage = "parse" /\ stage' = "write" /\ objIdx > Len(objects)
              \/ stage = "write" /\ stage' = "checkout"
       /\ work' # work => (pc = "clone" /\ stage = "write")
       /\ (pc' = "idle" /\ advert' # 0 /\ stage' # "checkout" /\ (pc # "idle" \/ ncmd' # ncmd)) =>
              (exit' = 1 /\ work' = work)]_vars

====
